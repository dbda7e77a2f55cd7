----------------------------- MODULE DmaCopier ------------------------------
(***************************************************************************)
(* What the DMA master promises: while GO is set it reads the source until *)
(* valid data is on the read port, stores that word at the destination and *)
(* starts again.  Which read the data answers is not part of the promise.  *)
(***************************************************************************)
CONSTANTS Address, NoAddress, NoWord

VARIABLES
  phase,  \* what is on the master port: nothing, a read or a write
  go, src, dest,
  word,   \* the word being stored
  valid, answer  \* the read port at the last edge: is there data, and which

(* The read port belongs to the bus and may change at any time.            *)
copierVars == <<phase, go, src, dest, word>>

CopierInit ==
  phase = "idle" /\ go = FALSE /\ src = NoAddress /\ dest = NoAddress /\ word = NoWord

(* Between two words the CPU may change the configuration.                 *)
Configure ==
  /\ phase = "idle"
  /\ go' \in BOOLEAN /\ src' \in Address /\ dest' \in Address
  /\ UNCHANGED <<phase, word>>

Start ==
  phase = "idle" /\ go /\ phase' = "fetch" /\ UNCHANGED <<go, src, dest, word>>

Fetch ==
  /\ phase = "fetch" /\ valid
  /\ phase' = "store" /\ word' = answer
  /\ UNCHANGED <<go, src, dest>>

Store ==
  phase = "store" /\ phase' = "idle" /\ word' = NoWord /\ UNCHANGED <<go, src, dest>>

CopierReset ==
  phase' = "idle" /\ go' = FALSE /\ src' = NoAddress /\ dest' = NoAddress /\ word' = NoWord

CopierNext == Configure \/ Start \/ Fetch \/ Store \/ CopierReset

CopierSpec == CopierInit /\ [][CopierNext]_copierVars /\ WF_copierVars(Store)

=============================================================================
