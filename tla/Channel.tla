------------------------------- MODULE Channel -------------------------------
(***************************************************************************)
(* src/src/net/Channel.{h,cc} and the part of EPollPoller.cc a Channel     *)
(* reaches through EventLoop::updateChannel/removeChannel.  A channel is   *)
(* any record with the fields                                              *)
(*   events   the events_ mask, a subset of {"R", "W"}                     *)
(*   index    index_, the channel's state in the poller                    *)
(* and index = "kAdded" is what "the fd is in the epoll set" is to the     *)
(* poller: ADD sets it, DEL clears it.                                     *)
(***************************************************************************)

Indices == {"kNew", "kAdded", "kDeleted"}

InEpoll(ch) == ch.index = "kAdded"

isWriting(ch) == "W" \in ch.events

(* EPollPoller::updateChannel.  A kNew or kDeleted channel is ADDed,       *)
(* whatever its mask; an added one is DELeted when its mask is empty and   *)
(* MODified otherwise.                                                     *)
updateChannel(ch) ==
  [ch EXCEPT !.index = IF @ = "kAdded" /\ ch.events = {} THEN "kDeleted" ELSE "kAdded"]

(* EPollPoller::removeChannel *)
removeChannel(ch) == [ch EXCEPT !.index = "kNew"]

enableReading(ch)  == updateChannel([ch EXCEPT !.events = @ \cup {"R"}])
enableWriting(ch)  == updateChannel([ch EXCEPT !.events = @ \cup {"W"}])
disableWriting(ch) == updateChannel([ch EXCEPT !.events = @ \ {"W"}])
disableAll(ch)     == updateChannel([ch EXCEPT !.events = {}])
=============================================================================
