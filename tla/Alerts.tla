------------------------------- MODULE Alerts -------------------------------
(***************************************************************************)
(* Inspection alerts and the Feishu client they share with the ledger      *)
(* reminders: src/inspection-alert/inspection-alert.service.ts and         *)
(* src/feishu/feishu.service.ts.  The process is single-threaded: a step   *)
(* runs from one await to the next.  Its caches, the requests in progress  *)
(* and the token live in its memory and are lost when it restarts.         *)
(***************************************************************************)
EXTENDS Integers, Sequences, FiniteSets

CONSTANTS
    Events,         \* environment and event id: the key of an alert
    Callers,        \* the calls that may be in progress together
    NoCaller,
    SentLimit,      \* how many sent alerts are remembered: 1000
    PendingLimit,   \* how many alerts may be in flight: 100
    MaxCalls        \* bound: calls

ASSUME SentLimitAssumption == SentLimit \in Nat \ {0}
ASSUME NoCallerAssumption == NoCaller \notin Callers

VARIABLES
    sentAlerts,     \* the Map of what was sent, in insertion order
    callers,        \* caller -> [at, ...]
    token,          \* is a tenant token cached that has not expired?
    tokenRequest,   \* the caller whose request for a token is shared
    delivered,      \* what Feishu has shown to the recipient
    answers,        \* what the callers were told
    calls

alertVars == <<sentAlerts, callers, token, tokenRequest, delivered, answers, calls>>

Levels == {1, 2}    \* warning, critical

NoCall == [at |-> "idle"]

InFlight == {"lookup", "token", "fetch", "shared", "post"}

(* The Map pending holds a key from the moment its task starts until the   *)
(* task has settled.                                                       *)
PendingCallers ==
    {c \in Callers : callers[c].at \in InFlight /\ callers[c].kind = "alert"}

PendingOf(event) == {c \in PendingCallers : callers[c].event = event}

Remembered(event) == {i \in DOMAIN sentAlerts : sentAlerts[i].event = event}

AlreadySent_AnyLevel(event, level) == Remembered(event) # {}

AlreadySent(event, level) ==
    \E i \in Remembered(event) : sentAlerts[i].level >= level

Answer(c, result) ==
    answers' = answers \cup {[event |-> callers[c].event, level |-> callers[c].level,
                              result |-> result]}

(* Set in the Map: a known key keeps its place, a new one evicts the       *)
(* oldest at the limit.                                                    *)
Remember(event, level) ==
    LET kept == IF Len(sentAlerts) >= SentLimit THEN Tail(sentAlerts) ELSE sentAlerts
    IN  IF Remembered(event) # {}
        THEN [i \in DOMAIN sentAlerts |->
                 IF i \in Remembered(event) THEN [event |-> event, level |-> level]
                 ELSE sentAlerts[i]]
        ELSE Append(kept, [event |-> event, level |-> level])

CallerAt(c, at) == callers' = [callers EXCEPT ![c].at = at]

CallEnds(c) == callers' = [callers EXCEPT ![c] = NoCall]

-----------------------------------------------------------------------------
AlertInit ==
    /\ sentAlerts = <<>>
    /\ callers = [c \in Callers |-> NoCall]
    /\ token = FALSE
    /\ tokenRequest = NoCaller
    /\ delivered = {}
    /\ answers = {}
    /\ calls = 0

Report(c) ==
    /\ callers[c].at = "idle"
    /\ calls < MaxCalls
    /\ \E e \in Events : \E l \in Levels :
          callers' = [callers EXCEPT ![c] = [at |-> "check", kind |-> "alert",
                                             event |-> e, level |-> l]]
    /\ calls' = calls + 1
    /\ UNCHANGED <<sentAlerts, token, tokenRequest, delivered, answers>>

(* A ledger reminder goes straight to the Feishu client. *)
Remind(c) ==
    /\ callers[c].at = "idle"
    /\ calls < MaxCalls
    /\ callers' = [callers EXCEPT ![c] = [at |-> "token", kind |-> "reminder"]]
    /\ calls' = calls + 1
    /\ UNCHANGED <<sentAlerts, token, tokenRequest, delivered, answers>>

(* While the key is pending the caller waits and looks again: this step    *)
(* is then not possible.                                                   *)
Duplicate(c) ==
    /\ callers[c].at = "check"
    /\ PendingOf(callers[c].event) = {}
    /\ AlreadySent(callers[c].event, callers[c].level)
    /\ Answer(c, "duplicate")
    /\ CallEnds(c)
    /\ UNCHANGED <<sentAlerts, token, tokenRequest, delivered, calls>>

StartAlert(c) ==
    /\ callers[c].at = "check"
    /\ PendingOf(callers[c].event) = {}
    /\ ~AlreadySent(callers[c].event, callers[c].level)
    /\ IF Cardinality(PendingCallers) >= PendingLimit
       THEN Answer(c, "busy") /\ CallEnds(c)
       ELSE CallerAt(c, "lookup") /\ UNCHANGED answers
    /\ UNCHANGED <<sentAlerts, token, tokenRequest, delivered, calls>>

Fail(c) ==
    IF callers[c].kind = "alert" THEN Answer(c, "failed") ELSE UNCHANGED answers

(* The recipient may be missing, disabled or without an open id. *)
FindRecipient(c) ==
    /\ callers[c].at = "lookup"
    /\ \/ CallerAt(c, "token") /\ UNCHANGED answers
       \/ Fail(c) /\ CallEnds(c)
    /\ UNCHANGED <<sentAlerts, token, tokenRequest, delivered, calls>>

(* accessToken: the cached token, the request in progress, or a new one.   *)
TakeToken(c) ==
    /\ callers[c].at = "token"
    /\ CallerAt(c, IF token THEN "post" ELSE IF tokenRequest # NoCaller THEN "shared"
                   ELSE "fetch")
    /\ tokenRequest' = IF ~token /\ tokenRequest = NoCaller THEN c ELSE tokenRequest
    /\ UNCHANGED <<sentAlerts, token, delivered, answers, calls>>

Sharers == {c \in Callers : callers[c].at \in {"fetch", "shared"}}

(* The request for a token settles for everyone who waits for it. *)
TokenArrives ==
    /\ tokenRequest # NoCaller
    /\ callers' = [c \in Callers |->
                      IF c \in Sharers THEN [callers[c] EXCEPT !.at = "post"] ELSE callers[c]]
    /\ token' = TRUE
    /\ tokenRequest' = NoCaller
    /\ UNCHANGED <<sentAlerts, delivered, answers, calls>>

TokenFails ==
    /\ tokenRequest # NoCaller
    /\ callers' = [c \in Callers |-> IF c \in Sharers THEN NoCall ELSE callers[c]]
    /\ answers' = answers \cup
          {[event |-> callers[c].event, level |-> callers[c].level, result |-> "failed"] :
              c \in Sharers \cap PendingCallers}
    /\ tokenRequest' = NoCaller
    /\ UNCHANGED <<sentAlerts, token, delivered, calls>>

TokenExpires ==
    /\ token
    /\ token' = FALSE
    /\ UNCHANGED <<sentAlerts, callers, tokenRequest, delivered, answers, calls>>

Shown(c) ==
    IF callers[c].kind = "alert"
    THEN delivered \cup {[event |-> callers[c].event, level |-> callers[c].level]}
    ELSE delivered

(* sendText, then sent.set *)
PostAccepted(c) ==
    /\ callers[c].at = "post"
    /\ delivered' = Shown(c)
    /\ IF callers[c].kind = "alert"
       THEN /\ sentAlerts' = Remember(callers[c].event, callers[c].level)
            /\ Answer(c, "sent")
       ELSE UNCHANGED <<sentAlerts, answers>>
    /\ CallEnds(c)
    /\ UNCHANGED <<token, tokenRequest, calls>>

(* A timeout or an HTTP error, whether or not Feishu has the message; a    *)
(* refused token is dropped, even if another one has replaced it.          *)
PostFails(c) ==
    /\ callers[c].at = "post"
    /\ \/ delivered' \in {delivered, Shown(c)} /\ UNCHANGED token
       \/ token' = FALSE /\ UNCHANGED delivered
    /\ Fail(c)
    /\ CallEnds(c)
    /\ UNCHANGED <<sentAlerts, tokenRequest, calls>>

Restart ==
    /\ sentAlerts' = <<>>
    /\ callers' = [c \in Callers |-> NoCall]
    /\ token' = FALSE
    /\ tokenRequest' = NoCaller
    /\ UNCHANGED <<delivered, answers, calls>>

CallerStep(c) ==
    \/ Report(c) \/ Remind(c) \/ Duplicate(c) \/ StartAlert(c) \/ FindRecipient(c)
    \/ TakeToken(c) \/ PostAccepted(c) \/ PostFails(c)

AlertNext ==
    \/ \E c \in Callers : CallerStep(c)
    \/ TokenArrives \/ TokenFails \/ TokenExpires \/ Restart

-----------------------------------------------------------------------------
(* One request for a token is out at most, and nobody waits for one that   *)
(* has settled, however tokens expire, are refused or come too late.       *)
TokenShared ==
    /\ {c \in Callers : callers[c].at = "fetch"} = {tokenRequest} \ {NoCaller}
    /\ Sharers # {} => tokenRequest # NoCaller

(* An alert answered with "sent" was shown to the recipient; one answered  *)
(* with "duplicate" was shown before at the same or a higher level.  One   *)
(* event is never in flight twice.  And no caller is stranded between the  *)
(* token they share and the message: its event would stay pending, and     *)
(* every later alert of the event would wait for it.                       *)
NoAlertSwallowed ==
    /\ \A a \in answers :
          a.result \in {"sent", "duplicate"} =>
              \E d \in delivered : d.event = a.event /\ d.level >= a.level
    /\ \A e \in Events : Cardinality(PendingOf(e)) <= 1
    /\ TokenShared

-----------------------------------------------------------------------------
(* What every reachable state satisfies: what is remembered as sent was    *)
(* shown, and an event is in flight for one caller at a time.              *)
AlertSeen(seen, a) == \E d \in seen : d.event = a.event /\ d.level >= a.level

AlertCall ==
    [at : {"idle"}]
    \cup [at : {"check"} \cup InFlight, kind : {"alert"}, event : Events, level : Levels]
    \cup [at : InFlight, kind : {"reminder"}]

Alert == [event : Events, level : Levels]

AlertTypes ==
    /\ sentAlerts \in Seq(Alert)
    /\ callers \in [Callers -> AlertCall]
    /\ delivered \subseteq Alert
    /\ answers \subseteq [event : Events, level : Levels,
                          result : {"duplicate", "busy", "failed", "sent"}]

AlertInv ==
    /\ AlertTypes
    /\ \A i \in DOMAIN sentAlerts : AlertSeen(delivered, sentAlerts[i])
    /\ \A a \in answers : a.result \in {"sent", "duplicate"} => AlertSeen(delivered, a)
    /\ \A c, d \in PendingCallers : callers[c].event = callers[d].event => c = d

=============================================================================
