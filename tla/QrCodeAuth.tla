----------------------------- MODULE QrCodeAuth -----------------------------
(***************************************************************************)
(* Authorization by QR code (skill-qrcode-auth): HttpQrCodeAuthService,    *)
(* which turns an HTTP answer into what became of a code, and              *)
(* QrCodeAuthSessionController, which creates a code, polls it, replaces   *)
(* it when it expires and reports one snapshot per thing that happened.    *)
(* The service may answer anything; an answer is a record of what the      *)
(* adapter looks at.  The server names a new code or an old one again.     *)
(***************************************************************************)
EXTENDS Naturals, FiniteSets

CONSTANTS
  Codes,             \* the QR codes the service may hand out
  MaxRefreshCount,   \* QrCodeAuthPolicy.maxRefreshCount
  RefreshOnExpired   \* QrCodeAuthPolicy.refreshOnExpired

ASSUME QrPolicy ==
  /\ MaxRefreshCount \in Nat
  /\ RefreshOnExpired \in BOOLEAN

NoCode == "session"

VARIABLES
  qrPc,          \* where start() is: "idle", "create", "poll" or "done"
  activeCode,    \* the ref of activeSession
  refreshCount,
  emitted,       \* emittedKeys: pairs <<type, code>>
  endings        \* history: the terminal snapshots that were reported, a bag

qrVars == <<qrPc, activeCode, refreshCount, emitted, endings>>

Terminal == {"confirmed", "cancelled", "failed"}

QrInit ==
  /\ qrPc = "idle" /\ activeCode = NoCode /\ refreshCount = 0
  /\ emitted = {} /\ endings = {}

-----------------------------------------------------------------------------
(* HttpQrCodeAuthService *)

\* What the adapter reads of an answer: did it come at all, its HTTP status,
\* does it parse, the business code, the code it is about, and the fields.
CreateAnswers ==
  [sent : BOOLEAN, ok : BOOLEAN, parsed : BOOLEAN, code200 : BOOLEAN,
   qrcode : Codes \cup {NoCode}, complete : BOOLEAN]

QueryAnswers ==
  [sent : BOOLEAN, ok : BOOLEAN, parsed : BOOLEAN, code200 : BOOLEAN,
   qrcode : Codes \cup {NoCode}, expired : BOOLEAN, status : 0 .. 4,
   keys : BOOLEAN]

\* requestJson() and the business code, with what they make of a failure.
Understood(answer) == answer.sent /\ answer.ok /\ answer.parsed /\ answer.code200
FailureReason(answer) == IF answer.sent THEN "auth_service_error" ELSE "network_error"

\* createSession(): a session needs every field.
CreateResult(answer) ==
  IF ~Understood(answer) THEN [kind |-> "failed", qrcode |-> NoCode, reason |-> FailureReason(answer)]
  ELSE IF answer.qrcode = NoCode \/ ~answer.complete
  THEN [kind |-> "failed", qrcode |-> NoCode, reason |-> "auth_service_error"]
  ELSE [kind |-> "created", qrcode |-> answer.qrcode, reason |-> "none"]

\* mapQueryStatus(), mapConfirmedQueryStatus()
StatusKind(answer) ==
  CASE answer.status = 0 -> "waiting"
    [] answer.status = 1 -> "scanned"
    [] answer.status = 2 -> IF answer.keys THEN "confirmed" ELSE "failed"
    [] answer.status = 3 -> "cancelled"
    [] OTHER             -> "failed"

CreateResults == {CreateResult(answer) : answer \in CreateAnswers}

\* querySession(), mapQuerySessionData(): expiry comes before the status.
QueryKind(answer) ==
  IF ~Understood(answer) \/ answer.qrcode = NoCode THEN "failed"
  ELSE IF answer.expired THEN "expired" ELSE StatusKind(answer)

QueryResult(ref, answer) ==
  [kind |-> QueryKind(answer),
   qrcode |-> IF Understood(answer) /\ answer.qrcode # NoCode
              THEN answer.qrcode ELSE ref,
   reason |-> IF QueryKind(answer) = "failed" THEN FailureReason(answer) ELSE "none"]

QueryResults ==
  [ref \in Codes |-> {QueryResult(ref, answer) : answer \in QueryAnswers}]

-----------------------------------------------------------------------------
(* Slips: what a definition below would be if the code had it wrong. *)

\* An expired code that may not be refreshed ends the polling unreported.
ExpireSilently(result) ==
  IF RefreshOnExpired /\ refreshCount < MaxRefreshCount
  THEN /\ qrPc' = "create" /\ refreshCount' = refreshCount + 1
       /\ UNCHANGED <<emitted, endings>>
  ELSE qrPc' = "done" /\ UNCHANGED <<refreshCount, emitted, endings>>

-----------------------------------------------------------------------------
(* QrCodeAuthSessionController *)

\* emitSnapshot(), buildSnapshotKey(): each key is reported once.
Emit(keys) ==
  /\ emitted' = emitted \cup keys
  /\ endings' = endings \cup {k \in keys \ emitted : k[1] \in Terminal}

\* run(): validated input and policy start the controller.
StartQr ==
  /\ qrPc = "idle"
  /\ qrPc' = "create"
  /\ refreshCount' = 0 /\ activeCode' = NoCode
  /\ emitted' = {} /\ endings' = {}

\* createAndEmitSession()
CreateSession(result) ==
  /\ qrPc = "create"
  /\ IF result.kind = "failed"
     THEN /\ Emit({<<"failed", NoCode, result.reason>>})
          /\ qrPc' = "done" /\ UNCHANGED activeCode
     ELSE /\ Emit({<<"qrcode_generated", result.qrcode>>})
          /\ qrPc' = "poll" /\ activeCode' = result.qrcode
  /\ UNCHANGED refreshCount

\* What follows an expired code: a new one, or the end.
Expire(result) ==
  IF RefreshOnExpired /\ refreshCount < MaxRefreshCount
  THEN /\ Emit({<<"expired", result.qrcode>>})
       /\ qrPc' = "create" /\ refreshCount' = refreshCount + 1
  ELSE /\ Emit({<<"expired", result.qrcode>>, <<"failed", result.qrcode, "timeout">>})
       /\ qrPc' = "done" /\ UNCHANGED refreshCount

\* One turn of the polling loop: querySession() and handleQueryResult().
Poll(result) ==
  /\ qrPc = "poll"
  /\ CASE result.kind = "waiting" -> UNCHANGED <<qrPc, refreshCount, emitted, endings>>
       [] result.kind = "scanned" ->
            Emit({<<"scanned", result.qrcode>>}) /\ UNCHANGED <<qrPc, refreshCount>>
       [] result.kind = "expired" -> Expire(result)
       [] result.kind = "failed" ->
            /\ Emit({<<"failed", result.qrcode, result.reason>>})
            /\ qrPc' = "done" /\ UNCHANGED refreshCount
       [] OTHER ->
            /\ Emit({<<result.kind, result.qrcode>>})
            /\ qrPc' = "done" /\ UNCHANGED refreshCount
  /\ UNCHANGED activeCode

QrNext ==
  \/ StartQr
  \/ \E result \in CreateResults : CreateSession(result)
  \/ qrPc = "poll" /\ \E result \in QueryResults[activeCode] : Poll(result)

-----------------------------------------------------------------------------
(* Properties *)

\* An authorization that is over reported exactly one ending, one that polls
\* has shown the code it polls, and no more codes are made than the policy
\* allows: the user is told once how it ended, whatever the service answered.
OneEnding ==
  /\ qrPc = "done" => Cardinality(endings) = 1
  /\ qrPc \in {"create", "poll"} => endings = {}
  /\ qrPc = "poll" => <<"qrcode_generated", activeCode>> \in emitted
  /\ refreshCount <= MaxRefreshCount
=============================================================================
