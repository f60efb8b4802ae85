------------------------------ MODULE LiveStream ------------------------------
(***************************************************************************)
(* The hub that passes an execution's deltas to its subscribers            *)
(* (internal/stream/stream.go, postgres.go, api/stream.go): one listener   *)
(* delivers notification after notification under the hub's mutex, which   *)
(* subscribers take to come and to go.  A subscriber may stop reading.     *)
(***************************************************************************)
EXTENDS Naturals, Sequences

CONSTANTS
  Subscribers,
  Buffer,       \* subBuffer
  MaxDeltas     \* bound: deltas published

NoDelivery == "not delivering"

ASSUME StreamAssumption ==
  /\ Buffer \in Nat \ {0} /\ MaxDeltas \in Nat
  /\ NoDelivery \notin Subscribers

VARIABLES
  published,    \* the last delta published; deltas are numbered
  handed,       \* the last delta whose delivery ended
  inbox,        \* per subscriber, its channel
  subscription, \* per subscriber: "none", "open", "leaving" or "closed"
  visiting      \* channels the delivery under way still has to visit

streamVars == <<published, handed, inbox, subscription, visiting>>

NotDelivering == {NoDelivery}
MutexFree == visiting = NotDelivering
Subscribed == {s \in Subscribers : subscription[s] \in {"open", "leaving"}}

StreamInit ==
  /\ published = 0
  /\ handed = 0
  /\ inbox = [s \in Subscribers |-> <<>>]
  /\ subscription = [s \in Subscribers |-> "none"]
  /\ visiting = NotDelivering

Publish ==
  /\ published < MaxDeltas
  /\ published' = published + 1
  /\ UNCHANGED <<handed, inbox, subscription, visiting>>

(* A notification that arrives while the listener reconnects is lost.      *)
Lose ==
  /\ MutexFree /\ handed < published
  /\ handed' = handed + 1
  /\ UNCHANGED <<published, inbox, subscription, visiting>>

BeginDelivery ==
  /\ MutexFree /\ handed < published
  /\ visiting' = Subscribed
  /\ UNCHANGED <<published, handed, inbox, subscription>>

(* A send that waits for room.                                             *)
SendOrWait(s) == Len(inbox[s]) < Buffer /\ inbox' = [inbox EXCEPT ![s] = Append(@, handed + 1)]

(* A full channel misses the delta.                                        *)
Send(s) == inbox' = IF Len(inbox[s]) < Buffer
                    THEN [inbox EXCEPT ![s] = Append(@, handed + 1)] ELSE inbox

Visit(s) ==
  /\ ~MutexFree /\ s \in visiting
  /\ Send(s)
  /\ visiting' = visiting \ {s}
  /\ UNCHANGED <<published, handed, subscription>>

FinishDelivery ==
  /\ visiting = {}
  /\ handed' = handed + 1
  /\ visiting' = NotDelivering
  /\ UNCHANGED <<published, inbox, subscription>>

Subscribe(s) ==
  /\ MutexFree /\ subscription[s] = "none"
  /\ subscription' = [subscription EXCEPT ![s] = "open"]
  /\ UNCHANGED <<published, handed, inbox, visiting>>

Read(s) ==
  /\ subscription[s] = "open" /\ inbox[s] # <<>>
  /\ inbox' = [inbox EXCEPT ![s] = Tail(@)]
  /\ UNCHANGED <<published, handed, subscription, visiting>>

(* The client is gone or a write to it failed; cancel waits for the mutex. *)
Leave(s) ==
  /\ subscription[s] = "open"
  /\ subscription' = [subscription EXCEPT ![s] = "leaving"]
  /\ UNCHANGED <<published, handed, inbox, visiting>>

Cancel(s) ==
  /\ MutexFree /\ subscription[s] = "leaving"
  /\ subscription' = [subscription EXCEPT ![s] = "closed"]
  /\ UNCHANGED <<published, handed, inbox, visiting>>

Listener == BeginDelivery \/ FinishDelivery \/ \E s \in Subscribers : Visit(s)

StreamNext ==
  \/ Publish \/ Lose \/ Listener
  \/ \E s \in Subscribers : Subscribe(s) \/ Read(s) \/ Leave(s) \/ Cancel(s)

(* The listener runs and a mutex is not withheld from a waiter for ever;   *)
(* nothing makes a subscriber read.                                        *)
StreamFairness ==
  /\ WF_streamVars(Listener)
  /\ \A s \in Subscribers : SF_streamVars(Cancel(s))

StreamSpec == StreamInit /\ [][StreamNext]_streamVars /\ StreamFairness

-----------------------------------------------------------------------------
(* What a channel holds is in the order of publication, without repeats.   *)
ChannelsInOrder ==
  \A s \in Subscribers : \A i, j \in DOMAIN inbox[s] : i < j => inbox[s][i] < inbox[s][j]

(* A subscriber that does not read holds up nobody: every delta published  *)
(* passes the hub, whoever leaves gets away, and the channels are in order. *)
SlowReadersHoldUpNobody ==
  /\ \A n \in 1..MaxDeltas : published >= n ~> handed >= n
  /\ \A s \in Subscribers : subscription[s] = "leaving" ~> subscription[s] = "closed"
  /\ []ChannelsInOrder
=============================================================================
