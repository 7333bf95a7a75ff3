------------------------ MODULE PublishingSubmission ------------------------
(***************************************************************************)
(* Editors that submit to PublishingWorks over a network (web,              *)
(* submission-reconcile.ts): one request id and one frozen command for each *)
(* explicit submit, a receipt read when the answer was lost, and the same   *)
(* command again when the author asks for it.                               *)
(*                                                                          *)
(* A call whose answer is lost may still be on its way: it is executed any  *)
(* time later, or never.  A page that is reloaded forgets its controller.   *)
(***************************************************************************)
EXTENDS PublishingWorks

CONSTANT Editors   \* editors: open pages with a submission controller

VARIABLES
    controller,    \* the controller of each editor and its call
    underway       \* submissions under way that nobody waits for any more

submissionVars == <<controller, underway>>
allVars == <<works, revisions, holders, snapshots, items, receipts, policy, page,
             changes, controller, underway>>

Statuses == {"idle", "submitting", "reconciling", "unconfirmed", "confirmed",
             "not_ready", "failed"}
Answers == {"confirmed", "not_ready", "refused", "no_receipt"}

(* `call` is Null without a call, "sent" before the server's step, and then  *)
(* the answer on its way.                                                   *)
ControllerState == [status : Statuses, command : Command \cup {Null},
                    call : {Null, "sent"} \cup Answers]
Idle == [status |-> "idle", command |-> Null, call |-> Null]

SubmissionTypeOK == /\ TypeOK
                    /\ controller \in [Editors -> ControllerState]
                    /\ underway \subseteq Command

SubmissionInit == /\ Init
                  /\ controller = [e \in Editors |-> Idle]
                  /\ underway = {}

-----------------------------------------------------------------------------
(* The controller's operations. *)

Started(e, status, command) ==
    controller' = [controller EXCEPT ![e] =
                     [status |-> status, command |-> command, call |-> "sent"]]

UsedRequests == {c.request : c \in underway}
                  \cup {controller[e].command.request :
                          e \in {f \in Editors : controller[f].command # Null}}

(* The revision the editor loaded: that of its draft, or the one the work    *)
(* had when the session began or later.                                     *)
LoadedBases(h) == IF IsDraft(h) THEN {holders[h].base}
                  ELSE IF holders[h].work = Null THEN {0}
                  ELSE 0..works[holders[h].work].author

(* submit. *)
SendCommand(e, h, content, visibility) ==
    /\ controller[e].status \in {"idle", "failed", "not_ready"}
    /\ holders[h].state = "active"
    /\ \E r \in Requests \ UsedRequests, base \in LoadedBases(h) :
         /\ receipts[r] = Null
         /\ Started(e, "submitting",
                    [request |-> r, holder |-> h, content |-> content,
                     visibility |-> visibility, base |-> base])
    /\ UNCHANGED <<vars, underway>>

(* retry: the frozen command again. *)
Retry(e) == /\ controller[e].status = "unconfirmed"
            /\ Started(e, "submitting", controller[e].command)
            /\ UNCHANGED <<vars, underway>>

(* checkAgain: the receipt is read again. *)
CheckAgain(e) == /\ controller[e].status = "unconfirmed"
                 /\ Started(e, "reconciling", controller[e].command)
                 /\ UNCHANGED <<vars, underway>>

(* reset. *)
ResetController(e) == /\ controller[e].status \in {"failed", "not_ready"}
                      /\ controller' = [controller EXCEPT ![e] = Idle]
                      /\ UNCHANGED <<vars, underway>>

(* reportFailure: what went wrong before a command was sent. *)
ReportFailure(e) == /\ controller[e].status \in {"idle", "failed", "not_ready"}
                    /\ controller' = [controller EXCEPT ![e] = [Idle EXCEPT !.status = "failed"]]
                    /\ UNCHANGED <<vars, underway>>

(* A submission that has not reached the server may reach it later. *)
Abandoned(e) == IF controller[e].status = "submitting" /\ controller[e].call = "sent"
                THEN underway \cup {controller[e].command} ELSE underway

(* The page is reloaded: dispose, and a new controller. *)
Reload(e) == /\ controller[e].status # "idle"
             /\ controller' = [controller EXCEPT ![e] = Idle]
             /\ underway' = Abandoned(e)
             /\ UNCHANGED vars

-----------------------------------------------------------------------------
(* The server's side of a call: submit with authorCommand. *)

Known(command) == receipts[command.request] # Null

Replayed(command) == /\ Known(command)
                     /\ receipts[command.request].command = command

NotReady(command) == /\ ~ Known(command)
                     /\ holders[command.holder].state = "active"
                     /\ BaseIsCurrent(command)
                     /\ ~ ItemsReady(command)

(* One execution of a command, and its answer.  A command can also be        *)
(* refused for its text, a thread or the daily limit.                       *)
Execute(command, answer) ==
    \/ answer = "confirmed" /\ Submit(command)
    \/ answer = "confirmed" /\ Replayed(command) /\ UNCHANGED vars
    \/ answer = "not_ready" /\ NotReady(command) /\ UNCHANGED vars
    \/ answer = "refused" /\ ~ Replayed(command) /\ ~ NotReady(command) /\ UNCHANGED vars

ServeSubmit(e, answer) ==
    /\ controller[e].status = "submitting" /\ controller[e].call = "sent"
    /\ Execute(controller[e].command, answer)
    /\ controller' = [controller EXCEPT ![e].call = answer]
    /\ UNCHANGED underway

(* A late submission: nobody reads its answer. *)
ServeLate(command) ==
    /\ command \in underway
    /\ \E answer \in Answers : Execute(command, answer)
    /\ underway' = underway \ {command}
    /\ UNCHANGED controller

(* readSubmissionReceipt. *)
ServeReceipt(e) ==
    /\ controller[e].status = "reconciling" /\ controller[e].call = "sent"
    /\ controller' = [controller EXCEPT ![e].call =
                        IF Known(controller[e].command) THEN "confirmed" ELSE "no_receipt"]
    /\ UNCHANGED <<vars, underway>>

-----------------------------------------------------------------------------
(* The controller's continuations. *)

Settled(e, status) == controller' = [controller EXCEPT ![e].status = status, ![e].call = Null]

(* The answer of submit. *)
Answered(e) ==
    /\ controller[e].status = "submitting"
    /\ controller[e].call \in Answers
    /\ Settled(e, CASE controller[e].call = "confirmed" -> "confirmed"
                    [] controller[e].call = "not_ready" -> "not_ready"
                    [] OTHER -> "failed")
    /\ UNCHANGED <<vars, underway>>

(* The answer of submit is lost, before or after the server's step: the      *)
(* receipt is read.                                                         *)
AnswerLost(e) ==
    /\ controller[e].status = "submitting"
    /\ Started(e, "reconciling", controller[e].command)
    /\ underway' = Abandoned(e)
    /\ UNCHANGED vars

(* Faulty: a query that finds no receipt confirms, too. *)
Reconciled_found(e) ==
    /\ controller[e].status = "reconciling"
    /\ \/ controller[e].call # "sent" /\ Settled(e, "confirmed")
       \/ Settled(e, "unconfirmed")
    /\ UNCHANGED <<vars, underway>>

(* The answer of the receipt query, or its failure. *)
Reconciled(e) ==
    /\ controller[e].status = "reconciling"
    /\ \/ controller[e].call = "confirmed" /\ Settled(e, "confirmed")
       \/ Settled(e, "unconfirmed")
    /\ UNCHANGED <<vars, underway>>

-----------------------------------------------------------------------------
EditorStep ==
    \E e \in Editors :
        \/ \E h \in Holders, content \in Contents, visibility \in Visibility :
             SendCommand(e, h, content, visibility)
        \/ Retry(e) \/ CheckAgain(e) \/ ResetController(e) \/ ReportFailure(e)
        \/ Reload(e)
        \/ Answered(e) \/ AnswerLost(e) \/ Reconciled(e)

ServerStep ==
    \/ \E e \in Editors : ServeReceipt(e) \/ \E answer \in Answers : ServeSubmit(e, answer)
    \/ \E command \in underway : ServeLate(command)

SubmissionNext ==
    \/ EditorStep
    \/ ServerStep
    \/ (AuthorStep \/ OperatorStep) /\ UNCHANGED submissionVars

SubmissionSpec == SubmissionInit /\ [][SubmissionNext]_allVars

-----------------------------------------------------------------------------
(* An editor says a submission is confirmed only when the account has it,    *)
(* under this editor's request and with its content, or had it before the   *)
(* work was deleted (createSubmissionController).                           *)
ConfirmedIsSubmitted ==
    \A e \in Editors : controller[e].status = "confirmed" =>
        LET command == controller[e].command
            receipt == receipts[command.request]
        IN /\ receipt # Null
           /\ receipt.command = command
           /\ works[receipt.work].state = "live" =>
                revisions[receipt.work][receipt.revision].content = command.content

=============================================================================
