----------------------------- MODULE LcdChannel ------------------------------
(***************************************************************************)
(* What the LCD driver promises a master that writes one word at a time    *)
(* ("Translates avalon bus data and commands to the LCD interface"): a     *)
(* channel of one place from the bus to the panel that neither loses,      *)
(* repeats, reorders nor alters a word, and that a reset empties.          *)
(***************************************************************************)
EXTENDS Naturals, Sequences

CONSTANTS Item,   \* what a bus write asks to be sent to the panel
          NoItem  \* no item was sent since the reset

VARIABLES queue,  \* the item accepted and not yet sent
          out,    \* the item sent last
          parity  \* toggles with every item sent, also with an equal one

channelVars == <<queue, out, parity>>

ChannelInit == queue = <<>> /\ out = NoItem /\ parity = 0

Accept ==
  queue = <<>> /\ (\E i \in Item : queue' = <<i>>) /\ UNCHANGED <<out, parity>>

(* Each item is sent once: sending takes it out of the queue.              *)
Deliver ==
  queue # <<>> /\ out' = Head(queue) /\ queue' = Tail(queue) /\ parity' = 1 - parity

Restart == queue' = <<>> /\ out' = NoItem /\ parity' = 0

ChannelNext == Accept \/ Deliver \/ Restart

ChannelSpec == ChannelInit /\ [][ChannelNext]_channelVars /\ WF_channelVars(Deliver)

=============================================================================
