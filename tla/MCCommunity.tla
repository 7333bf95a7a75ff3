---------------------------- MODULE MCCommunity ----------------------------
(* Small instances of the inbox, of an agent connection and of a            *)
(* conversation, in scenes that are chosen once.                            *)
(*   reading: two likes of one group and a comment to two readers are       *)
(* projected by two workers while a reader pages and marks.                 *)
(*   waking: an action changes, claims expire, fail and are dropped, and    *)
(* its recipient may be kept from it.                                       *)
(*   connecting: two approvals, disconnects and resumes of one connection.  *)
(*   talking: two accounts send, hide and bring back, over and over again,  *)
(* while one blocks the other and an operator removes a message.            *)
(*   viewing: one account has the conversation open while they talk;        *)
(* paging: it only pages back.                                              *)
EXTENDS Notifications, AgentConnections, DirectMessages, TLC

CONSTANTS like1, like2, comment, writer, viewer, Scenes

VARIABLE scene

Recipients == (like1 :> {1}) @@ (like2 :> {1}) @@ (comment :> {1, 2})
Groups == (like1 :> "likes") @@ (like2 :> "likes") @@ (comment :> "comment")

MCInit == NotificationsInit /\ AgentConnectionsInit /\ DirectInit /\ scene \in Scenes

(* Every action is taken once, at most one projection at a time is retried. *)
WhileReading ==
    /\ inbox'[2] = Nobody /\ apart' = {} /\ stands \subseteq stands'
    /\ Cardinality({a \in Actions : source'[a].attempts = 2}) <= 1
    /\ \A w \in Workers : Cardinality(worker'[w].claims) <= 1

(* One like that may change again, and the comment; at most one recipient is  *)
(* kept from one of them, and one of them is claimed a second time.          *)
WhileWaking == /\ inbox' = inbox
               /\ like2 \notin stands' /\ source'[comment].generation <= 1
               /\ Cardinality(everApart') <= 1
               /\ Cardinality({a \in Actions : source'[a].attempts = 2}) <= 1

(* One review page is rendered twice. *)
WhileConnecting == Cardinality({i \in Interactions : consents'[i].ticket = 2}) <= 1

(* Request ids, transactions and reads are numbers, and the first free one is  *)
(* taken; the first of the two accounts to write is `writer`.                 *)
FirstFree(before, after) ==
    \A n \in DOMAIN after : before[n] = NoCommand /\ after[n] # NoCommand =>
      \A k \in DOMAIN after : k < n => before[k] # NoCommand
Asked == {q \in RequestIds : asked'[q] # NoCommand}
Sends == {q \in Asked : asked'[q].kind = "send"}
Removals == Cardinality({n \in DOMAIN messages' : messages'[n].removed})
UnderWay(calls) == {t \in Calls : calls[t] # NoCommand}
WhileEither == /\ FirstFree(asked, asked') /\ FirstFree(tx, tx') /\ FirstFree(pages, pages')
               /\ conversation'.initiator # viewer

(* Nobody looks; at most four commands, one of them to hide or bring back,   *)
(* or three and a removal, not while the accounts are apart.                 *)
WhileTalking ==
    /\ \A a \in Accounts : screen'[a] = NoCommand
    /\ Cardinality(Asked) + Removals <= 4 /\ Cardinality(Asked \ Sends) <= 1
    /\ Removals <= 1 /\ (Removals = 1 => blocked' = blocked /\ ~ blocked)

(* A transaction ends before anything else happens, and a send is not         *)
(* repeated; the viewer writes at most once.                                  *)
WhileViewing ==
    /\ screen'[writer] = NoCommand /\ ~ blocked' /\ Removals = 0
    /\ UnderWay(tx) # {} => tx' # tx /\ (receipts' # receipts \/ UnderWay(tx') # {})
    /\ Cardinality(UnderWay(tx')) <= 1
    /\ \A q \in Asked : asked'[q].kind \in {"send", "read"}
    /\ \A t \in UnderWay(tx') : receipts[tx'[t].request] = NoCommand
    /\ Cardinality(Sends) <= MaxMessages
    /\ Cardinality({q \in Sends : asked'[q].actor = viewer}) <= 1
    /\ scene = "paging" => \A r \in Reads : pages'[r] # NoCommand => pages'[r].mode # "newer"
    /\ scene = "viewing" => Cardinality({r \in Reads :
                              pages'[r] # NoCommand /\ pages'[r].mode = "older"}) <= 1

MCNext ==
    /\ scene' = scene
    /\ \/ /\ scene = "reading"
          /\ NotificationsNext /\ WhileReading /\ UNCHANGED <<connectionVars, directVars>>
       \/ /\ scene = "waking"
          /\ NotificationsNext /\ WhileWaking /\ UNCHANGED <<connectionVars, directVars>>
       \/ /\ scene = "connecting"
          /\ AgentConnectionsNext /\ WhileConnecting
          /\ UNCHANGED <<notificationVars, directVars>>
       \/ /\ scene = "talking"
          /\ WriteNext /\ WhileEither /\ WhileTalking
          /\ UNCHANGED <<notificationVars, connectionVars>>
       \/ /\ scene \in {"viewing", "paging"}
          /\ DirectNext /\ WhileEither /\ WhileViewing
          /\ UNCHANGED <<notificationVars, connectionVars>>

MCSpec == MCInit /\ [][MCNext]_<<notificationVars, connectionVars, directVars, scene>>

Symmetric ==
    Permutations(Interactions) \cup Permutations(Grants) \cup Permutations(Requests)
=============================================================================
