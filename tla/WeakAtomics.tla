----------------------------- MODULE WeakAtomics -----------------------------
(***************************************************************************)
(* weak_atomic and fence (include/atomicops.h): memory as two threads see  *)
(* it when every load and store is relaxed and only fences give order, by  *)
(* the rules of C++11.  A relaxed load may deliver an old value.  A release *)
(* fence before a store and an acquire fence after the load that read it   *)
(* make everything the first thread did before its fence visible to the    *)
(* second one after its own.                                               *)
(*                                                                         *)
(* Each atomic variable is stored to by one thread only, as the queue's    *)
(* are.  What a thread knows of the other one is then a number: the other  *)
(* thread's writes up to that number are visible to it.                    *)
(*                                                                         *)
(* A memory m is a record:                                                 *)
(*   visible[x]   the values of the atomic x that the other thread may     *)
(*                still load, oldest first, each with the number of its    *)
(*                store and that of the release fence before it            *)
(*   plain[p]     a variable without atomicity: its value, who wrote it    *)
(*                last and the number of that write                        *)
(*   writes[t]    how many writes thread t has made                        *)
(*   released[t]  how many of them precede its last release fence          *)
(*   promised[t]  writes of the other thread that t's next acquire fence   *)
(*                makes visible                                            *)
(*   acquired[t]  writes of the other thread that are visible to t         *)
(*   raced        some access to a plain variable was a data race          *)
(***************************************************************************)
EXTENDS Integers, Sequences, FiniteSetsExt

CONSTANTS
  Threads,           \* the two threads
  Atomics,           \* the atomic variables
  WriterOf(_),       \* the thread that stores to an atomic variable
  Plain              \* the variables that are not atomic

Message(value, store, release) == [value |-> value, store |-> store, release |-> release]

\* The constructors run before the threads share the memory.
Constructed(atomic, plain) ==
  [visible |-> [x \in Atomics |-> <<Message(atomic[x], 0, 0)>>],
   plain |-> [p \in Plain |-> [value |-> plain[p], by |-> CHOOSE t \in Threads : TRUE, write |-> 0]],
   writes |-> [t \in Threads |-> 0], released |-> [t \in Threads |-> 0],
   promised |-> [t \in Threads |-> 0], acquired |-> [t \in Threads |-> 0],
   raced |-> FALSE]

-----------------------------------------------------------------------------
\* A thread's load of a variable it stores to itself
Own(m, x) == m.visible[x][Len(m.visible[x])].value

\* weak_atomic::operator=: a relaxed store
Stored(m, t, x, value) ==
  [m EXCEPT !.writes[t] = @ + 1,
            !.visible[x] = Append(@, Message(value, m.writes[t] + 1, m.released[t]))]

\* weak_atomic::load of a variable of the other thread: any value not older than
\* one that t has read or knows of.
Loads(m, t, x) ==
  {[value |-> m.visible[x][i].value,
    memory |-> [m EXCEPT !.visible[x] = SubSeq(@, i, Len(@)),
                         !.promised[t] = Max({@, m.visible[x][i].release})]] :
     i \in 1..Len(m.visible[x])}

\* fence(memory_order_release)
Released(m, t) == [m EXCEPT !.released[t] = m.writes[t]]

\* The values that remain for t when it knows the other thread's first n writes
Remaining(messages, n) ==
  SubSeq(messages, Max({i \in DOMAIN messages : messages[i].store <= n} \cup {1}), Len(messages))

\* mutant: fence compiles to compiler_fence
AcquiredByCompilerOnly(m, t) == m

\* fence(memory_order_acquire)
Acquired(m, t) ==
  LET n == Max({m.acquired[t], m.promised[t]})
  IN  [m EXCEPT !.acquired[t] = n,
                !.visible = [x \in Atomics |->
                   IF WriterOf(x) = t THEN @[x] ELSE Remaining(@[x], n)]]

-----------------------------------------------------------------------------
\* An access of t to p is a data race unless the other thread's last write to p
\* is visible to t.
Races(m, t, p) == m.plain[p].by # t /\ m.plain[p].write > m.acquired[t]

Read(m, t, p) == [m EXCEPT !.raced = @ \/ Races(m, t, p)]

Written(m, t, p, value) ==
  [m EXCEPT !.writes[t] = @ + 1,
            !.plain[p] = [value |-> value, by |-> t, write |-> m.writes[t] + 1],
            !.raced = @ \/ Races(m, t, p)]

ValueOf(m, p) == m.plain[p].value
=============================================================================
