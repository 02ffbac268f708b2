----------------------------- MODULE SecureLink -----------------------------
(***************************************************************************)
(* A connection of Links, used as it is or wrapped by EncryptedConnection  *)
(* (security/encryption.rs).  The Noise XX handshake takes the connection  *)
(* for itself (inner is moved into it) and drives it with plain calls of   *)
(* send and recv.                                                          *)
(*                                                                         *)
(* unframe_noise_message returns no bytes whatever it is given, and snow   *)
(* refuses an empty handshake message.  So the first message either side   *)
(* reads ends its handshake with HandshakeFailed, and what the code would  *)
(* do after that is never reached.  A handshake that ends drops the        *)
(* connection.  Its time limit is looked at between the calls only.        *)
(*                                                                         *)
(* The handshake is modelled over Wi-Fi.  Over BLE no frame reaches a      *)
(* connection that a handshake has taken: ingest needs it too.             *)
(***************************************************************************)
EXTENDS Links

VARIABLES layer,  \* "plain", or "noise": hosts begin handshakes
          shake   \* the handshake on each side

secureVars == <<layer, shake>>
vars == <<linkVars, secureVars>>

SecureInit ==
  /\ Init
  /\ layer \in {"plain", "noise"} /\ (layer = "noise" => kind = "wifi")
  /\ shake = [s \in Sides |-> "none"]

\* handshake_initiator begins: Message 1, a placeholder of two frames.
Initiate(id) ==
  /\ layer = "noise" /\ shake[from] = "none"
  /\ WifiSend(from, payload_capacity + 1, id)
  /\ shake' = [shake EXCEPT ![from] = "sending"]
  /\ UNCHANGED layer

\* ... once Message 1 is sent, and in time, it waits for Message 2.
AwaitReply ==
  /\ shake[from] = "sending" /\ op[from].result = "ok"
  /\ StartRecv(from)
  /\ shake' = [shake EXCEPT ![from] = "receiving"]
  /\ UNCHANGED layer

\* handshake_responder begins with waiting for Message 1.
Respond ==
  /\ layer = "noise" /\ shake[Other(from)] = "none"
  /\ StartRecv(Other(from))
  /\ shake' = [shake EXCEPT ![Other(from)] = "receiving"]
  /\ UNCHANGED layer

\* Faulty variant of HandshakeFails: the connection stays open.
HandshakeFailsOpen(s) ==
  /\ op[s].do = "idle" /\ shake[s] \in {"sending", "receiving"}
  /\ shake' = [shake EXCEPT ![s] = "failed"]
  /\ UNCHANGED <<linkVars, layer>>

\* The handshake ends with an error: a call failed, the time is over after
\* Message 1 (HandshakeTimeout), or a message arrived (HandshakeFailed).
HandshakeFails(s) ==
  /\ op[s].do = "idle" /\ shake[s] \in {"sending", "receiving"}
  /\ shake' = [shake EXCEPT ![s] = "failed"]
  /\ conn' = [conn EXCEPT ![s] = "Dropped"]
  /\ UNCHANGED <<kind, from, op, broken, wire, torn, air, buffers, inbox, sent, connects, history, layer>>

Handshake ==
  \/ \E id \in Drawn : Initiate(id)
  \/ AwaitReply
  \/ Respond
  \/ \E s \in Sides : HandshakeFails(s)

PlainHost == layer = "plain" /\ Host

Next ==
  \/ (Progress \/ Environment \/ PlainHost) /\ UNCHANGED secureVars
  \/ Handshake

Spec == SecureInit /\ [][Next]_vars

\* The receiving host calls recv again and again (recv_any) and does not
\* always cancel it before what has arrived is read; the runtime goes on with
\* calls and handshakes that can.  The end of a stream arrives unless the
\* connection is lost.  That a host begins a handshake is not assumed.
Receiving == layer = "plain" /\ StartRecv(Other(from)) /\ UNCHANGED secureVars
Reads ==
  (ReadLength(Other(from)) \/ ReadBody(Other(from)) \/ ReadGarbage(Other(from))) /\ UNCHANGED secureVars

FairSpec ==
  /\ Spec
  /\ WF_vars(Progress /\ UNCHANGED secureVars)
  /\ \A s \in Sides : /\ WF_vars(~broken /\ ReadFails(s) /\ UNCHANGED secureVars)
                      /\ WF_vars(HandshakeFails(s))
  /\ WF_vars(AwaitReply)
  /\ SF_vars(Receiving) /\ SF_vars(Reads)
-----------------------------------------------------------------------------
TypeOK ==
  /\ LinksTypeOK
  /\ layer \in {"plain", "noise"}
  /\ shake \in [Sides -> {"none", "sending", "receiving", "failed"}]

\* Over Wi-Fi a message whose send returned Ok, frames and all, is received by
\* a host that goes on receiving, unless a cancelled call has torn a frame, an
\* id was drawn twice, or the connection was closed or lost.
SentIsReceived ==
  [](kind = "wifi" /\ layer = "plain" =>
       <>(finished \subseteq ToSet(got[Other(from)]) \/ torn[Other(from)] \/ clash # "no" \/ upset))

\* Once both sides have begun, a handshake ends on both, unless the connection
\* is lost: neither has a limit on the time that a call of recv may take, and
\* Message 2 never comes, so it takes the responder's drop of its connection
\* to end the initiator's wait.  A side whose peer never begins, or whose
\* connection is lost without a word, waits for ever.
HandshakeEnds ==
  (\A s \in Sides : shake[s] # "none") ~> (broken \/ \A s \in Sides : shake[s] = "failed")
=============================================================================
