----------------------------- MODULE DurableMap -----------------------------
(***************************************************************************)
(* What the Store capability promises, without its lock, its tasks and its  *)
(* temporary files.  Every opened store is a map in memory; saving replaces *)
(* the saved map by one store's whole map, in one step; a process that dies *)
(* takes its memory with it and nothing else.                               *)
(***************************************************************************)
CONSTANTS Stores, Keys, Contents, Unread, Blank, AsSaved(_)

VARIABLES memory,   \* per store: a map, or Unread before its first use
          saved     \* what a store that opens now would find

Init == /\ memory = [s \in Stores |-> Unread]
        /\ saved \in [Keys -> Contents] \cup {Blank}

\* The first use reads what is saved, or starts empty when it cannot be read.
Open(s) ==
  /\ memory[s] = Unread
  /\ \E m \in [Keys -> Contents] :
       /\ m = saved \/ \A k \in Keys : m[k] = Blank
       /\ memory' = [memory EXCEPT ![s] = m]
  /\ UNCHANGED saved

Put(s) ==
  /\ memory[s] # Unread
  /\ \E k \in Keys, v \in Contents : memory' = [memory EXCEPT ![s][k] = v]
  /\ UNCHANGED saved

Save(s) ==
  /\ memory[s] # Unread
  /\ saved' = [k \in Keys |-> AsSaved(memory[s][k])]
  /\ UNCHANGED memory

Die(s) == /\ memory' = [memory EXCEPT ![s] = Unread]
          /\ UNCHANGED saved

Next == \E s \in Stores : Open(s) \/ Put(s) \/ Save(s) \/ Die(s)

Spec == Init /\ [][Next]_<<memory, saved>>
=============================================================================
