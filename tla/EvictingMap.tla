----------------------------- MODULE EvictingMap -----------------------------
(***************************************************************************)
(* What a block cache promises its caller, whatever it does inside: a map  *)
(* from keys to buffers in which an entry appears with the data of the Put *)
(* that made it, changes only by a later Put of its key, and may vanish at *)
(* any time.  Queues, frequencies, sizes and counters are not mentioned.   *)
(***************************************************************************)
EXTENDS Integers, Functions

CONSTANTS Keys, Sizes, Versions

VARIABLES
  contents,   \* the size and the cells of each entry
  lastPut     \* size and version of the last Put of each entry that counts

map == <<contents, lastPut>>

Fill(size, version) == [i \in 1..size |-> version]

Init == DOMAIN contents = {} /\ DOMAIN lastPut = {}

\* A new entry; without memory it has no cells.
Store(key, size, version) ==
  /\ key \notin DOMAIN contents
  /\ \E cells \in {<<>>, Fill(size, version)} :
       contents' = [k \in DOMAIN contents \cup {key} |->
                      IF k = key THEN [size |-> size, data |-> cells] ELSE contents[k]]
  /\ lastPut' = [k \in DOMAIN lastPut \cup {key} |->
                   IF k = key THEN [size |-> size, version |-> version] ELSE lastPut[k]]

\* The cells the old buffer has room for are written over.
Overwrite(key, size, version) ==
  /\ key \in DOMAIN contents
  /\ contents' = [contents EXCEPT ![key].data =
                    [i \in DOMAIN @ |-> IF i <= size THEN version ELSE @[i]]]
  /\ lastPut' = [lastPut EXCEPT ![key] = [size |-> size, version |-> version]]

Vanish(keys) ==
  /\ contents' = Restrict(contents, DOMAIN contents \ keys)
  /\ lastPut' = Restrict(lastPut, DOMAIN lastPut \ keys)

Next ==
  \/ \E key \in Keys, size \in Sizes, version \in Versions :
       Store(key, size, version) \/ Overwrite(key, size, version)
  \/ \E keys \in SUBSET Keys : Vanish(keys)

Spec == Init /\ [][Next]_map
=============================================================================
