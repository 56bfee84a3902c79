------------------------------- MODULE WebRtc -------------------------------
(* Opening a camera's WebRTC stream through the IPC queue of the cloud           *)
(* (ipc/webrtc/xt_tuya_iot_webrtc_manager.py with camera.py).  The offer is      *)
(* handled by a task of the event loop that awaits the cloud several times;      *)
(* meanwhile the browser trickles its ICE candidates, which are queued until     *)
(* the offer is out, the MQTT thread files the camera's answer, and the browser  *)
(* may hang up.  A service call (get_sdp_answer) does the same exchange from an    *)
(* executor thread, waiting for the whole answer.                                *)
EXTENDS Naturals, Sequences, SequencesExt, FiniteSets

CONSTANTS Browsers,     \* the WebRTC sessions opened (session_id)
          Ice,          \* the ICE candidates of a browser
          CameraIce     \* the ICE candidates of the camera

End == "end"                         \* the empty candidate
Offer == "offer"
Disconnect == "disconnect"

ASSUME RtcAssumption == /\ IsFiniteSet(Browsers) /\ IsFiniteSet(Ice)
                        /\ Ice \cap {Offer, Disconnect} = {}

VARIABLES exchange,   \* sdp_exchange: the session of each id, or Expired
          stage,      \* where the exchange stands
          own,        \* the candidates written in the offer itself
          told,       \* the candidates the browser trickled, in order
          wire,       \* what was published to the camera, in order
          replies,    \* the camera's answer as the browser or the caller got it
          failing,    \* a cloud request or a publication of the session failed
          hungUp      \* the browser closed the session

rtcVars == <<exchange, stage, own, told, wire, replies, failing, hungUp>>

Expired == [filed |-> FALSE, callback |-> FALSE, config |-> FALSE, sent |-> FALSE,
            queue |-> <<>>, answer |-> FALSE, ice |-> <<>>]
Session == [Expired EXCEPT !.filed = TRUE]
Open(session) == IF session.filed THEN session ELSE Session

RtcInit == /\ exchange = [s \in Browsers |-> Expired]
           /\ stage = [s \in Browsers |-> "idle"]
           /\ own = [s \in Browsers |-> <<>>]
           /\ told = [s \in Browsers |-> <<>>]
           /\ wire = [s \in Browsers |-> <<>>]
           /\ replies = [s \in Browsers |-> <<>>]
           /\ failing = [s \in Browsers |-> FALSE]
           /\ hungUp = [s \in Browsers |-> FALSE]

(* get_config: the session's cached configuration or else the cloud's, which is  *)
(* filed; without one nothing can be published.                                  *)
Filed(session, ok) == [session EXCEPT !.config = @ \/ ok]
Worked(s, ok) == failing' = [failing EXCEPT ![s] = @ \/ ~ok]
(* send_to_ipc_mqtt *)
Publish(s, ok, messages) ==
  wire' = [wire EXCEPT ![s] = IF ok THEN @ \o messages ELSE @]

(* async_handle_async_webrtc_offer, up to its first await. *)
BeginOffer(s) == /\ stage[s] = "idle"
                 /\ \E c \in {<<>>} \cup {<<i>> : i \in Ice} : own' = [own EXCEPT ![s] = c]
                 /\ exchange' = [exchange EXCEPT ![s] = [Open(@) EXCEPT !.callback = TRUE]]
                 /\ stage' = [stage EXCEPT ![s] = "config"]
                 /\ UNCHANGED <<told, wire, replies, failing, hungUp>>

(* (As if an offer without candidates emptied the queue too.) *)
QueueFromOfferAlways(candidates, queue) == candidates
(* get_candidates_from_offer: the candidates of the offer, if it has any, take   *)
(* the place of what is queued.                                                  *)
QueueFromOffer(candidates, queue) == IF candidates = <<>> THEN queue ELSE candidates
ReadOffer(s) == /\ stage[s] = "config"
                /\ \E ok \in BOOLEAN :
                     /\ LET session == Filed(exchange[s], ok) IN
                        exchange' = [exchange EXCEPT ![s] =
                          [session EXCEPT !.queue = QueueFromOffer(own[s], session.queue)]]
                     /\ Worked(s, ok)
                /\ stage' = [stage EXCEPT ![s] = "publish"]
                /\ UNCHANGED <<own, told, wire, replies, hungUp>>

(* format_offer_payload and send_to_ipc_mqtt in an executor thread *)
PublishOffer(s) == /\ stage[s] = "publish"
                   /\ \E ok \in BOOLEAN : /\ Publish(s, ok, <<Offer>>)
                                          /\ Worked(s, ok)
                                          /\ exchange' = [exchange EXCEPT ![s] = Filed(@, ok)]
                   /\ stage' = [stage EXCEPT ![s] = "published"]
                   /\ UNCHANGED <<own, told, replies, hungUp>>

(* Back in the event loop: from here on candidates are sent directly. *)
OfferIsSent(s) == /\ stage[s] = "published"
                  /\ exchange' = [exchange EXCEPT ![s].sent = TRUE]
                  /\ stage' = [stage EXCEPT ![s] = "queue"]
                  /\ UNCHANGED <<own, told, wire, replies, failing, hungUp>>

(* One turn of the loop over offer_candidate, or its end. *)
SendQueued(s) ==
  /\ stage[s] = "queue"
  /\ IF exchange[s].queue = <<>>
     THEN /\ stage' = [stage EXCEPT ![s] = "open"]
          /\ UNCHANGED <<exchange, wire, failing>>
     ELSE /\ \E ok \in BOOLEAN : /\ Publish(s, ok, <<Head(exchange[s].queue)>>)
                                 /\ Worked(s, ok)
          /\ exchange' = [exchange EXCEPT ![s].queue = Tail(@)]
          /\ UNCHANGED stage
  /\ UNCHANGED <<own, told, replies, hungUp>>

(* on_webrtc_candidate, for a candidate of the browser and for the empty one     *)
(* camera.py sends a second after the offer began.                               *)
Candidate(s, c) ==
  /\ stage[s] \notin {"idle", "service", "served"}
  /\ c \notin ToSet(told[s]) \cup ToSet(own[s])
  /\ told' = [told EXCEPT ![s] = IF exchange[s].filed THEN Append(@, c) ELSE @]
  /\ \/ /\ ~exchange[s].filed
        /\ UNCHANGED <<exchange, wire, failing>>
     \/ /\ exchange[s].filed /\ ~exchange[s].sent
        /\ exchange' = [exchange EXCEPT ![s].queue = Append(@, c)]
        /\ UNCHANGED <<wire, failing>>
     \/ /\ exchange[s].filed /\ exchange[s].sent
        /\ \E ok \in BOOLEAN : /\ Publish(s, ok, <<c>>)
                               /\ Worked(s, ok)
        /\ UNCHANGED exchange
  /\ UNCHANGED <<stage, own, replies, hungUp>>

(* get_sdp_answer: publishes the offer and its candidates, then polls for the    *)
(* camera's last candidate for at most five seconds.                             *)
ServiceOffer(s) ==
  /\ stage[s] = "idle"
  /\ \E c \in {<<>>} \cup {<<i>> : i \in Ice} : /\ own' = [own EXCEPT ![s] = c]
                                                /\ wire' = [wire EXCEPT ![s] = <<Offer>> \o c]
  /\ exchange' = [exchange EXCEPT ![s] = Filed(Open(@), TRUE)]
  /\ stage' = [stage EXCEPT ![s] = "service"]
  /\ UNCHANGED <<told, replies, failing, hungUp>>
ServiceAnswer(s) ==
  /\ stage[s] = "service"
  /\ wire' = [wire EXCEPT ![s] = IF own[s] = <<>> THEN @ ELSE Append(@, End)]
  /\ replies' = [replies EXCEPT ![s] =
        (IF exchange[s].answer THEN <<"answer">> ELSE <<>>) \o exchange[s].ice]
  /\ stage' = [stage EXCEPT ![s] = "served"]
  /\ UNCHANGED <<exchange, own, told, failing, hungUp>>

(* The camera answers what it received.  set_sdp_answer: *)
Answer(s) == /\ Contains(wire[s], Offer) /\ ~exchange[s].answer
             /\ exchange' = [exchange EXCEPT ![s] = [Open(@) EXCEPT !.answer = TRUE]]
             /\ replies' = [replies EXCEPT ![s] =
                   IF exchange[s].callback THEN Append(@, "answer") ELSE @]
             /\ UNCHANGED <<stage, own, told, wire, failing, hungUp>>
(* add_sdp_answer_candidate: *)
AnswerIce(s, c) ==
  /\ exchange[s].answer /\ c \notin ToSet(exchange[s].ice) /\ End \notin ToSet(exchange[s].ice)
  /\ LET session == Open(exchange[s]) IN
     exchange' = [exchange EXCEPT ![s] = [session EXCEPT !.ice = Append(session.ice, c)]]
  /\ replies' = [replies EXCEPT ![s] = IF exchange[s].callback THEN Append(@, c) ELSE @]
  /\ UNCHANGED <<stage, own, told, wire, failing, hungUp>>

(* on_webrtc_close_session, when the browser hangs up: the offer may still be     *)
(* anywhere between two awaits, and goes on.  An expired session tells nothing.  *)
CloseSession(s) ==
  IF exchange[s].filed
  THEN \E ok \in BOOLEAN : /\ Publish(s, ok, <<Disconnect>>)
                           /\ Worked(s, ok)
                           /\ exchange' = [exchange EXCEPT ![s] = Filed(@, ok)]
  ELSE UNCHANGED <<exchange, wire, failing>>
Close(s) == /\ stage[s] \in {"config", "publish", "published", "queue", "open"} /\ ~hungUp[s]
            /\ hungUp' = [hungUp EXCEPT ![s] = TRUE]
            /\ CloseSession(s)
            /\ UNCHANGED <<stage, own, told, replies>>

(* _clean_cache drops a session ten minutes after it was created, long after the *)
(* offer was handled.                                                            *)
Expire(s) == /\ stage[s] = "open" /\ exchange[s].filed
             /\ exchange' = [exchange EXCEPT ![s] = Expired]
             /\ UNCHANGED <<stage, own, told, wire, replies, failing, hungUp>>

RtcNext == \E s \in Browsers :
  \/ BeginOffer(s) \/ ReadOffer(s) \/ PublishOffer(s) \/ OfferIsSent(s) \/ SendQueued(s)
  \/ \E c \in Ice \cup {End} : Candidate(s, c)
  \/ ServiceOffer(s) \/ ServiceAnswer(s)
  \/ Answer(s) \/ \E c \in CameraIce \cup {End} : AnswerIce(s, c)
  \/ Close(s) \/ Expire(s)

RtcSpec == RtcInit /\ [][RtcNext]_rtcVars

-----------------------------------------------------------------------------
(* Every session has a well-formed record and a known stage. *)
RtcTypeOK ==
  /\ \A s \in Browsers :
       /\ exchange[s].queue \in Seq(Ice \cup {End})
       /\ exchange[s].ice \in Seq(CameraIce \cup {End})
       /\ own[s] \in Seq(Ice) /\ told[s] \in Seq(Ice \cup {End})
       /\ wire[s] \in Seq(Ice \cup {Offer, End, Disconnect})
       /\ replies[s] \in Seq(CameraIce \cup {"answer", End})
  /\ stage \in [Browsers -> {"idle", "config", "publish", "published", "queue", "service", "served",
                             "open"}]
  /\ failing \in [Browsers -> BOOLEAN] /\ hungUp \in [Browsers -> BOOLEAN]

(* The places of what was published that carry a candidate. *)
Trickled(w) == {i \in DOMAIN w : w[i] \notin {Offer, Disconnect}}

(* As long as the session of the offer lives and the cloud takes what it is sent,*)
(* a browser that trickles all its candidates loses none, wherever they fall     *)
(* between the awaits of the offer and whenever it hangs up: the camera gets     *)
(* each exactly once and never before the offer, and once the offer is handled   *)
(* none is left in the queue (async_handle_async_webrtc_offer,                   *)
(* on_webrtc_candidate).  The offer itself may follow the Disconnect of a        *)
(* browser that hung up while it was handled: nothing in the offer looks at it.  *)
CandidatesOnce == \A s \in Browsers :
  LET w == wire[s]
      waiting == exchange[s].queue
  IN (exchange[s].callback /\ own[s] = <<>> /\ ~failing[s]) =>
        /\ \A i, j \in Trickled(w) : w[i] = w[j] => i = j
        /\ IsInjective(waiting) /\ \A i \in Trickled(w) : w[i] \notin ToSet(waiting)
        /\ {w[i] : i \in Trickled(w)} \cup ToSet(waiting) = ToSet(told[s])
        /\ \A i \in Trickled(w) : \E j \in 1..(i - 1) : w[j] = Offer
        /\ stage[s] = "open" => waiting = <<>>
=============================================================================
