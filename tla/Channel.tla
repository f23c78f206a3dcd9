------------------------------ MODULE Channel -------------------------------
(***************************************************************************)
(* A Channel (the events a file descriptor is watched for) and its         *)
(* registration with EPollPoller.  "et" is the flag EPOLLET: with it epoll *)
(* puts the descriptor on its ready list only when something happens to it *)
(* or its registration changes, without it as long as an event is there.   *)
(* level is the set of events that are there: \subseteq {"in","out","hup", *)
(* "err"}; the last two are reported whatever is asked for.                *)
(***************************************************************************)
EXTENDS FiniteSets

NewChannel == [events |-> {}, index |-> "kNew", ready |-> FALSE]

\* What epoll_wait would report of the channel.
Reported(ch, level) == level \cap (ch.events \cup {"hup", "err"})

\* EPollPoller::updateChannel: ADD, DEL or MOD.
UpdateChannel(ch, level) ==
  IF ch.index = "kAdded" /\ ch.events = {}
  THEN [ch EXCEPT !.index = "kDeleted", !.ready = FALSE]
  ELSE [ch EXCEPT !.index = "kAdded", !.ready = Reported(ch, level) # {}]

RemoveChannel(ch) == [ch EXCEPT !.index = "kNew", !.ready = FALSE]

EnableReading(ch, level) ==
  UpdateChannel([ch EXCEPT !.events = @ \cup {"in", "et"}], level)

EnableWriting(ch, level) ==
  UpdateChannel([ch EXCEPT !.events = @ \cup {"out"}], level)

DisableWriting(ch, level) ==
  UpdateChannel([ch EXCEPT !.events = @ \ {"out"}], level)

DisableAll(ch, level) == UpdateChannel([ch EXCEPT !.events = {}], level)

IsWriting(ch) == "out" \in ch.events

\* The kernel: one of the events evs happened on the descriptor.
Wake(ch, evs) ==
  [ch EXCEPT !.ready = @ \/ (ch.index = "kAdded" /\ Reported(ch, evs) # {})]

\* The kernel: epoll_wait has reported the channel.
Taken(ch) == [ch EXCEPT !.ready = "et" \notin ch.events]
=============================================================================
