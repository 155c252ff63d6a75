------------------------------- MODULE LbmCore -------------------------------
(***************************************************************************)
(* The mesh core of the LoRa radio (src/wmbus/radio/lora/lbm.rs): a node   *)
(* publishes messages, remembers their ids and retries those of a quality  *)
(* of service above AtMostOnce.                                            *)
(*                                                                         *)
(* The mesh is the node's own channel, whose receiving end nothing reads.  *)
(* route_message is only called for the node's own messages, and the       *)
(* subscribers of a topic are only the node itself, the source, so the hops*)
(* of a message are the gateways known to a gateway.  Times are choices: a *)
(* pending message may be due, an old id may be more than 5 minutes old.   *)
(***************************************************************************)
EXTENDS Naturals, Sequences, SequencesExt, FiniteSets

CONSTANTS
  LbNodes,              \* other nodes that may be heard
  LbMessages,           \* bound: ids of the messages published
  LbCache,              \* size of the cache (1000 in the code)
  LbChannel             \* capacity of the channel (100 in the code)

ASSUME LbAssumption ==
  IsFiniteSet(LbNodes) /\ IsFiniteSet(LbMessages) /\ LbCache \in Nat \ {0} /\ LbChannel \in Nat

VARIABLES
  lbGateway,            \* is_gateway
  lbKnown,              \* nodes: "unknown", or what it was when first heard
  lbIds,                \* message_cache, oldest first
  lbPending,            \* pending_acks: the retry count of a message
  lbRetrying,           \* messages process_retries has yet to route (pending_acks is locked)
  lbSending,            \* the message each caller of route_message sends, and its hops left
  lbCopies,             \* copies of each message in the channel
  lbHops,               \* hops a message had when it was published
  lbForgotten           \* ids that have left the cache

lbVars == <<lbGateway, lbKnown, lbIds, lbPending, lbRetrying, lbSending, lbCopies, lbHops,
            lbForgotten>>

LbCaller == {"publish", "retry"}
NoMessage == [id |-> "none", left |-> 0]
MaxRetries == 3

LbInit ==
  /\ lbGateway \in BOOLEAN
  /\ lbKnown = [n \in LbNodes |-> "unknown"]
  /\ lbIds = <<>> /\ lbForgotten = {}
  /\ lbPending = [m \in {} |-> 0] /\ lbRetrying = {}
  /\ lbSending = [c \in LbCaller |-> NoMessage]
  /\ lbCopies = [m \in LbMessages |-> 0]
  /\ lbHops = [m \in {} |-> 0]

-----------------------------------------------------------------------------
(* route_message                                                           *)

(* determine_next_hops                                                     *)
NextHops == IF lbGateway THEN Cardinality({n \in LbNodes : lbKnown[n] = "gateway"}) ELSE 0

(* Mutant of IsDuplicate: the node's own retries are let through.          *)
IsForeignDuplicate(m) == m \in ToSet(lbIds) /\ m \notin DOMAIN lbPending

(* is_duplicate: every id routed before, the node's own retries with the    *)
(* rest.                                                                   *)
IsDuplicate(m) == m \in ToSet(lbIds)

(* cache_message: what is over the size, then what is too old.             *)
CacheMessage(m) ==
  LET grown == Append(lbIds, m)
  IN  \E old \in 0..Len(lbIds) :
        /\ Len(grown) - old <= LbCache
        /\ lbIds' = SubSeq(grown, old + 1, Len(grown))
        /\ lbForgotten' = lbForgotten \cup (ToSet(lbIds) \ ToSet(lbIds'))

(* The part of route_message before the first send.                        *)
Route(caller, m) ==
  \/ /\ IsDuplicate(m)
     /\ UNCHANGED <<lbIds, lbForgotten, lbSending>>
  \/ /\ ~IsDuplicate(m)
     /\ CacheMessage(m)
     /\ lbSending' = [lbSending EXCEPT
                        ![caller] = IF NextHops = 0 THEN NoMessage ELSE [id |-> m, left |-> NextHops]]

(* send waits for room in the channel, and there is no reader to make any. *)
SendCopy(caller) ==
  LET now == lbSending[caller]
  IN  /\ now # NoMessage
      /\ FoldFunction(+, 0, lbCopies) < LbChannel
      /\ lbCopies' = [lbCopies EXCEPT ![now.id] = @ + 1]
      /\ lbSending' = [lbSending EXCEPT
                         ![caller] = IF now.left = 1 THEN NoMessage ELSE [now EXCEPT !.left = @ - 1]]
      /\ UNCHANGED <<lbGateway, lbKnown, lbIds, lbPending, lbRetrying, lbHops, lbForgotten>>

-----------------------------------------------------------------------------
(* The operations.                                                         *)

(* publish: pending first (pending_acks is locked while process_retries     *)
(* routes), then routed.  subscribe publishes in the same way, unretried.  *)
PendingFree == lbRetrying = {} /\ lbSending["retry"] = NoMessage

Publish(m, retried) ==
  /\ m \notin DOMAIN lbHops
  /\ lbSending["publish"] = NoMessage
  /\ retried => PendingFree
  /\ lbPending' = IF retried THEN [p \in DOMAIN lbPending \cup {m} |->
                                     IF p = m THEN 0 ELSE lbPending[p]]
                             ELSE lbPending
  /\ lbHops' = [h \in DOMAIN lbHops \cup {m} |-> IF h = m THEN NextHops ELSE lbHops[h]]
  /\ Route("publish", m)
  /\ UNCHANGED <<lbGateway, lbKnown, lbRetrying, lbCopies>>

(* process_retries: every message that is due is counted and retried; the   *)
(* third time it is also forgotten, before it is routed, so that the warning*)
(* of a failed message is never given.  Nothing else removes a message:     *)
(* there are no acknowledgments.                                           *)
ProcessRetries(due) ==
  /\ PendingFree
  /\ due # {}
  /\ lbRetrying' = due
  /\ lbPending' = [p \in {q \in DOMAIN lbPending : q \in due => lbPending[q] + 1 < MaxRetries} |->
                     IF p \in due THEN lbPending[p] + 1 ELSE lbPending[p]]
  /\ UNCHANGED <<lbGateway, lbKnown, lbIds, lbSending, lbCopies, lbHops, lbForgotten>>

RouteRetry(m) ==
  /\ m \in lbRetrying
  /\ lbSending["retry"] = NoMessage
  /\ lbRetrying' = lbRetrying \ {m}
  /\ Route("retry", m)
  /\ UNCHANGED <<lbGateway, lbKnown, lbPending, lbCopies, lbHops>>

(* update_node: a node stays what it was when it was first heard.          *)
UpdateNode(n, kind) ==
  /\ lbKnown[n] = "unknown"
  /\ lbKnown' = [lbKnown EXCEPT ![n] = kind]
  /\ UNCHANGED <<lbGateway, lbIds, lbPending, lbRetrying, lbSending, lbCopies, lbHops, lbForgotten>>

LbNext ==
  \/ \E m \in LbMessages, retried \in BOOLEAN : Publish(m, retried)
  \/ \E due \in SUBSET DOMAIN lbPending : ProcessRetries(due)
  \/ \E m \in LbMessages : RouteRetry(m)
  \/ \E caller \in LbCaller : SendCopy(caller)
  \/ \E n \in LbNodes, kind \in {"plain", "gateway"} : UpdateNode(n, kind)

-----------------------------------------------------------------------------
(* AtLeastOnce and ExactlyOnce promise no more than AtMostOnce: as long as  *)
(* its id is in the cache, what process_retries routes again is dropped as  *)
(* a duplicate, so a message goes to the hops that were known when it was   *)
(* published, and one published before a gateway was heard goes nowhere,    *)
(* whatever is heard before its retries are over.                          *)
UnsentStaysUnsent ==
  \A m \in LbMessages :
    m \in DOMAIN lbHops /\ m \notin lbForgotten => lbCopies[m] <= lbHops[m]
=============================================================================
