-------------------------- MODULE AgentConnections --------------------------
(***************************************************************************)
(* The connection of one owner and one registered agent client: its row     *)
(* (agent-connection-store.ts), the consents a human decides on             *)
(* (agent-connection-consents.ts), the control plane that decides and       *)
(* disconnects (apps/admin, agent-connections/) and the provider that       *)
(* resumes an approved interaction into a grant                             *)
(* (services/agent-authorization, resume.ts).                               *)
(*                                                                          *)
(* A request is a sequence of single statements with no transaction around  *)
(* them; any number of them run at once and each may die between two.       *)
(***************************************************************************)
EXTENDS Integers, FiniteSets

CONSTANTS
    Interactions,     \* interactions the provider opens
    Grants,           \* ids of provider grants
    Requests,         \* requests under way: to decide, to disconnect, to resume
    MaxTickets,       \* bound: renderings of one review page
    MaxVersion,       \* bound: writes of the connection
    MaxTries,         \* attempts of a transition (5 in the code)
    None              \* no decision, no grant

ASSUME AgentConnectionsAssumption ==
    /\ None \notin Grants /\ None \notin {"approved", "denied"}
    /\ MaxTickets \in Nat /\ MaxVersion \in Nat /\ MaxTries \in Nat

VARIABLES
    connection,   \* agent_connections
    principal,    \* the machine principal of the connection is provisioned
    consents,     \* agent_connection_consents
    grants,       \* agent_connection_grants
    requests,     \* what each request has read and what it does next
    handedOut,    \* grants given to the client, which tokens are minted from
    effective,    \* approvals that moved the connection
    cut           \* of those, the ones a later disconnect has ended

connectionVars == <<connection, principal, consents, grants, requests, handedOut,
                    effective, cut>>

ConnectionRow == [status : {"absent", "awaiting-consent", "authorized", "revoked"},
                  generation : Nat, version : Nat, current : Grants \cup {None}]
(* Tickets are numbered: 0 before the review page was rendered. *)
Consent == [opened : BOOLEAN, expired : BOOLEAN, ticket : Nat,
            decision : {None, "approved", "denied"}, granted : Nat,
            resumed : BOOLEAN, grant : Grants \cup {None}]
GrantRow == [id : Grants, interaction : Interactions, generation : Nat]
Steps == {"idle", "record", "provision", "write", "revoke", "check", "build", "point",
          "spend", "finish"}
Request == [step : Steps, interaction : Interactions \cup {None}, ticket : Nat,
            version : Nat, status : {"awaiting-consent", "authorized", "revoked", "absent"},
            generation : Nat, grant : Grants \cup {None}, tries : Nat]

Idle == [step |-> "idle", interaction |-> None, ticket |-> 0, version |-> 0,
         status |-> "absent", generation |-> 0, grant |-> None, tries |-> 0]

AgentConnectionsInit ==
    /\ connection = [status |-> "absent", generation |-> 0, version |-> 0, current |-> None]
    /\ principal = FALSE
    /\ consents = [i \in Interactions |->
                     [opened |-> FALSE, expired |-> FALSE, ticket |-> 0, decision |-> None,
                      granted |-> 0, resumed |-> FALSE, grant |-> None]]
    /\ grants = {}
    /\ requests = [q \in Requests |-> Idle]
    /\ handedOut = {} /\ effective = {} /\ cut = {}

Authorized == connection.status = "authorized"
Begin(q, r) == requests[q] = Idle /\ requests' = [requests EXCEPT ![q] = r]
Continue(q, step) == requests' = [requests EXCEPT ![q].step = step]
End(q) == requests' = [requests EXCEPT ![q] = Idle]

-----------------------------------------------------------------------------
(* The interaction and its review page. *)

(* The provider opens the interaction; the client and scopes are fixed. *)
Open(i) ==
    /\ ~ consents[i].opened
    /\ consents' = [consents EXCEPT ![i].opened = TRUE]
    /\ UNCHANGED <<connection, principal, grants, requests, handedOut, effective, cut>>

(* Rendering the review page finds or creates the connection (one row per     *)
(* owner and client) and arms the consent with a fresh ticket.                *)
Arm(i) ==
    /\ consents[i].opened /\ ~ consents[i].expired /\ consents[i].decision = None
    /\ consents[i].ticket < MaxTickets
    /\ consents' = [consents EXCEPT ![i].ticket = @ + 1]
    /\ connection' = [connection EXCEPT !.status =
                        IF @ = "absent" THEN "awaiting-consent" ELSE @]
    /\ UNCHANGED <<principal, grants, requests, handedOut, effective, cut>>

Expire(i) ==
    /\ consents[i].opened /\ ~ consents[i].expired
    /\ consents' = [consents EXCEPT ![i].expired = TRUE]
    /\ UNCHANGED <<connection, principal, grants, requests, handedOut, effective, cut>>

-----------------------------------------------------------------------------
(* decideConsent, with the ticket of any page rendered so far. *)

Decidable(i, ticket) == /\ consents[i].ticket = ticket /\ ticket # 0
                        /\ consents[i].decision = None /\ ~ consents[i].expired

Deny(i, ticket) ==
    /\ Decidable(i, ticket)
    /\ consents' = [consents EXCEPT ![i].decision = "denied"]
    /\ UNCHANGED <<connection, principal, grants, requests, handedOut, effective, cut>>

(* The connection is read at its version; both transitions, of a connection   *)
(* that is revoked and of one that is not, raise the generation by one.       *)
ReadToApprove(q, i, ticket) ==
    /\ ticket \in 1..consents[i].ticket
    /\ Begin(q, [Idle EXCEPT !.step = "record", !.interaction = i, !.ticket = ticket,
                             !.version = connection.version,
                             !.generation = connection.generation + 1])
    /\ UNCHANGED <<connection, principal, consents, grants, handedOut, effective, cut>>

Approved(q) == [consents EXCEPT ![requests[q].interaction].decision = "approved",
                                ![requests[q].interaction].granted = requests[q].generation]

(* The decision: the ticket, the deadline and the absence of another decision *)
(* are in the statement's WHERE.                                              *)
RecordApproval(q) ==
    /\ requests[q].step = "record"
    /\ \/ /\ Decidable(requests[q].interaction, requests[q].ticket)
          /\ consents' = Approved(q)
          /\ Continue(q, "provision")
       \/ /\ ~ Decidable(requests[q].interaction, requests[q].ticket)
          /\ consents' = consents
          /\ End(q)
    /\ UNCHANGED <<connection, principal, grants, handedOut, effective, cut>>

(* provisionPrincipal: found or written; when it throws, the request ends. *)
Provision(q) ==
    /\ requests[q].step = "provision"
    /\ \/ principal' = TRUE /\ Continue(q, "write")
       \/ principal' = principal /\ End(q)
    /\ UNCHANGED <<connection, consents, grants, handedOut, effective, cut>>

CompareAndSet(version, status, generation) ==
    /\ connection.version = version
    /\ version < MaxVersion
    /\ connection' = [connection EXCEPT !.status = status, !.generation = generation,
                                        !.version = @ + 1]

(* A lost compare-and-set is answered with a conflict; the decision stands. *)
WriteApproval(q) ==
    /\ requests[q].step = "write"
    /\ \/ /\ CompareAndSet(requests[q].version, "authorized", requests[q].generation)
          /\ effective' = effective \cup {requests[q].interaction}
       \/ /\ connection.version # requests[q].version
          /\ UNCHANGED <<connection, effective>>
    /\ End(q)
    /\ UNCHANGED <<principal, consents, grants, handedOut, cut>>

-----------------------------------------------------------------------------
(* Disconnect: ConnectionAuthority.revoke, a loop of read and compare-and-set. *)

ReadToRevoke(q) ==
    /\ connection.status # "absent"
    /\ Begin(q, [Idle EXCEPT !.step = "revoke", !.version = connection.version,
                             !.status = connection.status,
                             !.generation = connection.generation, !.tries = 1])
    /\ UNCHANGED <<connection, principal, consents, grants, handedOut, effective, cut>>

(* Revoking a revoked connection writes it as it is, but for its version. *)
WriteRevocation(q) ==
    LET r == requests[q] IN
    /\ r.step = "revoke"
    /\ \/ /\ CompareAndSet(r.version, "revoked",
                           IF r.status = "revoked" THEN r.generation ELSE r.generation + 1)
          /\ cut' = effective
          /\ End(q)
       \/ /\ connection.version # r.version /\ r.tries < MaxTries
          /\ requests' = [requests EXCEPT ![q].version = connection.version,
                                          ![q].status = connection.status,
                                          ![q].generation = connection.generation,
                                          ![q].tries = @ + 1]
          /\ UNCHANGED <<connection, cut>>
       \/ /\ connection.version # r.version /\ r.tries = MaxTries
          /\ End(q)
          /\ UNCHANGED <<connection, cut>>
    /\ UNCHANGED <<principal, consents, grants, handedOut, effective>>

-----------------------------------------------------------------------------
(* resumeInteraction: the provider builds the grant of an approved consent. *)

ReadToResume(q, i) ==
    /\ consents[i].decision = "approved" /\ ~ consents[i].resumed /\ ~ consents[i].expired
    /\ Begin(q, [Idle EXCEPT !.step = "check", !.interaction = i,
                             !.generation = consents[i].granted])
    /\ UNCHANGED <<connection, principal, consents, grants, handedOut, effective, cut>>

(* Mutant: the grant takes the generation the connection has by now. *)
CheckConnectionOnly(q) ==
    /\ requests[q].step = "check"
    /\ \/ /\ Authorized
          /\ requests' = [requests EXCEPT ![q].step = "build",
                                          ![q].generation = connection.generation]
       \/ ~ Authorized /\ End(q)
    /\ UNCHANGED <<connection, principal, consents, grants, handedOut, effective, cut>>

(* The connection must be where the decision left it. *)
CheckConnection(q) ==
    /\ requests[q].step = "check"
    /\ \/ /\ Authorized /\ connection.generation = requests[q].generation
          /\ Continue(q, "build")
       \/ /\ ~ (Authorized /\ connection.generation = requests[q].generation)
          /\ End(q)
    /\ UNCHANGED <<connection, principal, consents, grants, handedOut, effective, cut>>

(* The provider saves a grant and the snapshot of the consent beside it. *)
BuildGrant(q) ==
    /\ requests[q].step = "build"
    /\ \E g \in Grants \ {x.id : x \in grants} :
         /\ grants' = grants \cup {[id |-> g, interaction |-> requests[q].interaction,
                                    generation |-> requests[q].generation]}
         /\ requests' = [requests EXCEPT ![q].step = "point", ![q].grant = g]
    /\ UNCHANGED <<connection, principal, consents, handedOut, effective, cut>>

(* setCurrentGrant, on the same generation of an authorized connection. *)
PointAtGrant(q) ==
    /\ requests[q].step = "point"
    /\ \/ /\ Authorized /\ connection.generation = requests[q].generation
          /\ connection' = [connection EXCEPT !.current = requests[q].grant]
          /\ Continue(q, "spend")
       \/ /\ ~ (Authorized /\ connection.generation = requests[q].generation)
          /\ connection' = connection
          /\ End(q)
    /\ UNCHANGED <<principal, consents, grants, handedOut, effective, cut>>

Spent(q) == [consents EXCEPT ![requests[q].interaction].resumed = TRUE,
                             ![requests[q].interaction].grant = requests[q].grant]

(* Mutant: the consent is spent whether or not another resume spent it. *)
SpendAgain(q) ==
    /\ requests[q].step = "spend"
    /\ consents' = Spent(q) /\ Continue(q, "finish")
    /\ UNCHANGED <<connection, principal, grants, handedOut, effective, cut>>

(* consents.resume: spent exactly once, the later of two resumes is denied. *)
SpendConsent(q) ==
    /\ requests[q].step = "spend"
    /\ \/ /\ ~ consents[requests[q].interaction].resumed
          /\ consents' = Spent(q) /\ Continue(q, "finish")
       \/ /\ consents[requests[q].interaction].resumed
          /\ consents' = consents /\ End(q)
    /\ UNCHANGED <<connection, principal, grants, handedOut, effective, cut>>

(* interactionFinished: the client can redeem the grant for tokens. *)
HandOut(q) ==
    /\ requests[q].step = "finish"
    /\ handedOut' = handedOut \cup {g \in grants : g.id = requests[q].grant}
    /\ End(q)
    /\ UNCHANGED <<connection, principal, consents, grants, effective, cut>>

(* The process or its connection to the database dies. *)
Die(q) ==
    /\ requests[q] # Idle
    /\ End(q)
    /\ UNCHANGED <<connection, principal, consents, grants, handedOut, effective, cut>>

-----------------------------------------------------------------------------
RequestStep(q) ==
    \/ RecordApproval(q) \/ Provision(q) \/ WriteApproval(q)
    \/ ReadToRevoke(q) \/ WriteRevocation(q)
    \/ CheckConnection(q) \/ BuildGrant(q) \/ PointAtGrant(q) \/ SpendConsent(q)
    \/ HandOut(q) \/ Die(q)

AgentConnectionsNext ==
    \/ \E i \in Interactions : Open(i) \/ Arm(i) \/ Expire(i)
    \/ \E i \in Interactions, ticket \in 1..MaxTickets : Deny(i, ticket)
    \/ \E q \in Requests, i \in Interactions : ReadToResume(q, i)
    \/ \E q \in Requests, i \in Interactions, ticket \in 1..MaxTickets :
         ReadToApprove(q, i, ticket)
    \/ \E q \in Requests : RequestStep(q)

AgentConnectionsSpec ==
    AgentConnectionsInit /\ [][AgentConnectionsNext]_connectionVars

-----------------------------------------------------------------------------
(* admitGrant and verifyAccessToken: what a token minted from grant g (a      *)
(* wrapper copies the grant's generation) is admitted by.                     *)
Admitted(g) == /\ g \in handedOut
               /\ connection.current # None
               /\ Authorized
               /\ connection.generation = g.generation

(* A disconnect is final for every approval that had moved the connection:    *)
(* whatever was under way when it was confirmed, and however often the owner  *)
(* connects again, no grant of such an approval is admitted any more.         *)
DisconnectIsFinal == \A g \in handedOut : Admitted(g) => g.interaction \notin cut

(* An authorized connection acts on a decision: an approval recorded for just *)
(* this generation moved it there, with its principal provisioned; and an     *)
(* approval is handed out as one grant at most, at the generation it froze,   *)
(* however many times it is resumed at once.                                  *)
AuthorizedByDecision ==
    /\ Authorized => /\ principal
                     /\ \E i \in effective : /\ consents[i].decision = "approved"
                                             /\ consents[i].granted = connection.generation
    /\ \A g, h \in handedOut : g.interaction = h.interaction => g = h
    /\ \A g \in handedOut : /\ consents[g.interaction].decision = "approved"
                            /\ g.generation = consents[g.interaction].granted
=============================================================================
