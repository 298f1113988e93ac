--------------------------- MODULE LogicalChannels ---------------------------
(***************************************************************************)
(* What a shared connection promises its logical clients (docs/            *)
(* errors-and-reconnect.md, "Shared-client forwarding"): every result of   *)
(* the physical receive goes, once, to the end of the inbox of each member *)
(* it concerns, an error to all of them and a packet to those that follow  *)
(* its topic; a member takes results from the front of its own inbox.      *)
(***************************************************************************)
EXTENDS Sequences

CONSTANTS Clients, Topics, Errors

VARIABLES
  members,    \* the logical clients that are registered
  interest,   \* interest[c]: the topics c follows
  inbox       \* inbox[c]: the results c has not taken

ChannelInit ==
  /\ members = {}
  /\ interest = [c \in Clients |-> {}]
  /\ inbox = [c \in Clients |-> <<>>]

Join(c) ==
  /\ members' = members \cup {c}
  /\ UNCHANGED <<interest, inbox>>

Follow(c, t) ==
  /\ members' = members \cup {c}
  /\ interest' = [interest EXCEPT ![c] = @ \cup {t}]
  /\ UNCHANGED inbox

Leave(c) ==
  /\ members' = members \ {c}
  /\ UNCHANGED <<interest, inbox>>

Concerns(c, v) == c \in members /\ (v \in Errors \/ v \in interest[c])

Deliver(v) ==
  /\ inbox' = [c \in Clients |-> IF Concerns(c, v) THEN Append(inbox[c], v)
                                                  ELSE inbox[c]]
  /\ UNCHANGED <<members, interest>>

(* A member takes a result; a client that asks for one becomes a member.   *)
TakeNext(c) ==
  /\ inbox[c] # <<>>
  /\ inbox' = [inbox EXCEPT ![c] = Tail(@)]
  /\ members' \in {members, members \cup {c}}
  /\ UNCHANGED interest

ChannelNext ==
  \/ \E v \in Topics \cup Errors : Deliver(v)
  \/ \E c \in Clients :
       \/ Join(c) \/ Leave(c) \/ TakeNext(c)
       \/ \E t \in Topics : Follow(c, t)

ChannelSpec == ChannelInit /\ [][ChannelNext]_<<members, interest, inbox>>
=============================================================================
