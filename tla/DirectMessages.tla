---------------------------- MODULE DirectMessages ----------------------------
(***************************************************************************)
(* One conversation of two accounts (direct-message-adapter.ts) and the page *)
(* that shows it (use-direct-messages.ts).                                   *)
(*                                                                          *)
(* A write is one READ COMMITTED transaction.  It looks up the pair, waits   *)
(* for the pair's advisory lock and then looks again.  Between the check of  *)
(* a send and its commit only what does not take this lock can happen: a     *)
(* block (author-adapter.ts locks another key), a removal, a page.  A        *)
(* request is delivered any number of times, also twice at once.             *)
(***************************************************************************)
EXTENDS Integers, Sequences, FiniteSets, SequencesExt

CONSTANTS
    Accounts,      \* the two accounts
    RequestIds,    \* bound: request ids
    Calls,         \* bound: transactions under way at a time
    Reads,         \* bound: reads of pages under way at a time
    Window,        \* messages on a page (30 in the code)
    MaxMessages,   \* bound: messages of the conversation
    NoCommand      \* nothing: no command, receipt, transaction, screen or page

ASSUME DirectMessagesAssumption ==
    Cardinality(Accounts) = 2 /\ Window \in Nat \ {0} /\ MaxMessages \in Nat

Kinds == {"send", "hide", "unhide"}

ASSUME NoCommandAssumption ==
    /\ NoCommand \notin [actor : Accounts, kind : Kinds, sequence : Nat]
    /\ NoCommand \notin [request : RequestIds, permitted : BOOLEAN, count : Nat]
    /\ NoCommand \notin [sequence : Nat, text : BOOLEAN]

VARIABLES
    conversation,  \* dm_conversations: its state and who opened it
    messages,      \* dm_messages, in the order of their sequences
    participant,   \* dm_participants
    receipts,      \* dm_command_receipts
    blocked,       \* accounts_can_interact is false, or the recipient is suspended
    asked,         \* the command that each request id was given to
    tx,            \* write transactions that have begun
    screen,        \* the page that shows the conversation to an account
    pages,         \* reads of pages whose answer is on its way
    given          \* messages that were on a page that the account was shown

directVars == <<conversation, messages, participant, receipts, blocked, asked, tx,
                screen, pages, given>>

DirectInit ==
    /\ conversation = [state |-> "none", initiator |-> NoCommand]
    /\ messages = <<>>
    /\ participant = [a \in Accounts |-> [hidden |-> FALSE, before |-> 0, read |-> 0]]
    /\ receipts = [q \in RequestIds |-> NoCommand]
    /\ blocked = FALSE
    /\ asked = [q \in RequestIds |-> NoCommand]
    /\ tx = [t \in Calls |-> NoCommand]
    /\ screen = [a \in Accounts |-> NoCommand]
    /\ pages = [r \in Reads |-> NoCommand]
    /\ given = [a \in Accounts |-> {}]

-----------------------------------------------------------------------------
(* Commands and their transactions. *)

Command(a, kind, sequence) == [actor |-> a, kind |-> kind, sequence |-> sequence]

(* `count` is the number of messages it has read. *)
Under(t, q) ==
    tx' = [tx EXCEPT ![t] = [request |-> q, permitted |-> FALSE, count |-> Len(messages)]]

(* A new command arrives, with an id of its own (requestIdentity): its actor  *)
(* is active, the pair is known.                                              *)
Arrive(t, q, a, kind) ==
    /\ tx[t] = NoCommand /\ asked[q] = NoCommand
    /\ kind # "send" => conversation.state # "none"
    /\ asked' = [asked EXCEPT ![q] = Command(a, kind, 0)]
    /\ Under(t, q)
    /\ UNCHANGED <<conversation, messages, participant, receipts, blocked, screen, pages,
                   given>>

(* So does a mark that the page made, or a command that arrived before. *)
ArriveAgain(t, q) ==
    /\ tx[t] = NoCommand /\ asked[q] # NoCommand
    /\ Under(t, q)
    /\ UNCHANGED <<conversation, messages, participant, receipts, blocked, asked, screen,
                   pages, given>>

(* The transaction that checked has the lock of the pair. *)
Locked == \E t \in Calls : tx[t] # NoCommand /\ tx[t].permitted

CommandOf(t) == asked[tx[t].request]

(* Refused, rolled back or crashed; a send limit may refuse too. *)
RollBackCall(t) ==
    /\ tx[t] # NoCommand
    /\ tx' = [tx EXCEPT ![t] = NoCommand]
    /\ UNCHANGED <<conversation, messages, participant, receipts, blocked, asked, screen,
                   pages, given>>

(* Mutant: the messages are counted before the transaction has the lock. *)
CountFirst(t) ==
    /\ tx[t] # NoCommand /\ CommandOf(t).kind = "send"
    /\ ~ tx[t].permitted /\ ~ Locked
    /\ tx' = [tx EXCEPT ![t] =
                IF receipts[tx[t].request] # NoCommand \/ blocked THEN NoCommand
                ELSE [@ EXCEPT !.permitted = TRUE]]
    /\ UNCHANGED <<conversation, messages, participant, receipts, blocked, asked, screen,
                   pages, given>>

(* send, under the lock: a receipt answers, otherwise the recipient is looked *)
(* at and the messages are counted.                                           *)
Check(t) ==
    /\ tx[t] # NoCommand /\ CommandOf(t).kind = "send"
    /\ ~ tx[t].permitted /\ ~ Locked
    /\ tx' = [tx EXCEPT ![t] =
                IF receipts[tx[t].request] # NoCommand \/ blocked THEN NoCommand
                ELSE [@ EXCEPT !.permitted = TRUE, !.count = Len(messages)]]
    /\ UNCHANGED <<conversation, messages, participant, receipts, blocked, asked, screen,
                   pages, given>>

(* The request gate: whoever opened the pair waits for a reply. *)
Gate(a, count) ==
    conversation.state = "requested" /\ conversation.initiator = a /\ count >= 1

(* The conversation is opened or activated, the message gets the next         *)
(* sequence, its sender has seen it, and nobody's conversation stays hidden.  *)
Send(t) ==
    LET q == tx[t].request  a == asked[q].actor  n == Len(messages) + 1 IN
    /\ tx[t] # NoCommand /\ tx[t].permitted
    /\ n <= MaxMessages
    /\ ~ Gate(a, tx[t].count)
    /\ conversation' =
         CASE conversation.state = "none" -> [state |-> "requested", initiator |-> a]
           [] conversation.state = "requested" /\ conversation.initiator # a ->
                [conversation EXCEPT !.state = "active"]
           [] OTHER -> conversation
    /\ messages' = Append(messages, [sender |-> a, request |-> q, removed |-> FALSE])
    /\ participant' = [b \in Accounts |-> [participant[b] EXCEPT
                         !.hidden = FALSE, !.read = IF a = b THEN n ELSE @]]
    /\ receipts' = [receipts EXCEPT ![q] = [sequence |-> n, text |-> TRUE]]
    /\ tx' = [tx EXCEPT ![t] = NoCommand]
    /\ UNCHANGED <<blocked, asked, screen, pages, given>>

(* Mutant: the latest message is the one there was when the request arrived. *)
ChangedFromOldRow(t, row) ==
    LET c == CommandOf(t) IN
    CASE c.kind = "hide" -> [row EXCEPT !.hidden = TRUE, !.before = tx[t].count]
      [] c.kind = "unhide" -> [row EXCEPT !.hidden = FALSE]
      [] c.kind = "read" /\ c.sequence > row.read -> [row EXCEPT !.read = c.sequence]
      [] OTHER -> row

(* Mutant: a mark covers the latest message instead of the one it names. *)
ChangedToLatest(t, row) ==
    LET c == CommandOf(t) IN
    CASE c.kind = "hide" -> [row EXCEPT !.hidden = TRUE, !.before = Len(messages)]
      [] c.kind = "unhide" -> [row EXCEPT !.hidden = FALSE]
      [] c.kind = "read" -> [row EXCEPT !.read = Len(messages)]
      [] OTHER -> row

(* setHidden and markRead; a mark never exceeds the latest message. *)
Changed(t, row) ==
    LET c == CommandOf(t)  upTo == IF c.sequence < Len(messages) THEN c.sequence
                                   ELSE Len(messages) IN
    CASE c.kind = "hide" -> [row EXCEPT !.hidden = TRUE, !.before = Len(messages)]
      [] c.kind = "unhide" -> [row EXCEPT !.hidden = FALSE]
      [] c.kind = "read" /\ upTo > row.read -> [row EXCEPT !.read = upTo]
      [] OTHER -> row

(* participantCommand: everything it reads is guarded by the lock. *)
ChangeParticipant(t) ==
    LET q == tx[t].request IN
    /\ tx[t] # NoCommand /\ CommandOf(t).kind # "send" /\ ~ Locked
    /\ IF receipts[q] # NoCommand
       THEN UNCHANGED <<participant, receipts>>
       ELSE /\ participant' = [participant EXCEPT
                 ![CommandOf(t).actor] = Changed(t, participant[CommandOf(t).actor])]
            /\ receipts' = [receipts EXCEPT ![q] = [sequence |-> 0, text |-> FALSE]]
    /\ tx' = [tx EXCEPT ![t] = NoCommand]
    /\ UNCHANGED <<conversation, messages, blocked, asked, screen, pages, given>>

(* A block or its end, a suspension or its end. *)
SetBlocked ==
    /\ blocked' = ~ blocked
    /\ UNCHANGED <<conversation, messages, participant, receipts, asked, tx, screen, pages,
                   given>>

(* operatorRemoveMessage: the text goes from the message and from the receipt. *)
RemoveMessage(n) ==
    /\ n \in DOMAIN messages /\ ~ messages[n].removed
    /\ messages' = [messages EXCEPT ![n].removed = TRUE]
    /\ receipts' = [q \in RequestIds |->
                      IF receipts[q] # NoCommand /\ receipts[q].sequence = n
                      THEN [receipts[q] EXCEPT !.text = FALSE] ELSE receipts[q]]
    /\ UNCHANGED <<conversation, participant, blocked, asked, tx, screen, pages, given>>

-----------------------------------------------------------------------------
(* The page of an account. *)

NoMessages == [shown |-> <<>>, oldest |-> 0, populated |-> FALSE, marked |-> 0]

OpenPage(a) ==
    /\ screen[a] = NoCommand /\ conversation.state # "none"
    /\ screen' = [screen EXCEPT ![a] = NoMessages]
    /\ UNCHANGED <<conversation, messages, participant, receipts, blocked, asked, tx, pages,
                   given>>

(* Answers that come after it was left find nobody. *)
ClosePage(a) ==
    /\ screen[a] # NoCommand
    /\ screen' = [screen EXCEPT ![a] = NoCommand]
    /\ pages' = [r \in Reads |-> IF pages[r] # NoCommand /\ pages[r].reader = a
                                 THEN NoCommand ELSE pages[r]]
    /\ UNCHANGED <<conversation, messages, participant, receipts, blocked, asked, tx, given>>

(* readConversation: the last messages before a sequence, and whether there   *)
(* are older ones (0: none).                                                  *)
PageBefore(before) ==
    LET first == IF before > Window THEN before - Window ELSE 1
    IN [items |-> [i \in 1..(before - first) |->
                     [sequence |-> first + i - 1, removed |-> messages[first + i - 1].removed]],
        oldest |-> IF first > 1 THEN first ELSE 0]

Read(r, a, mode, before) ==
    /\ pages[r] = NoCommand
    /\ pages' = [pages EXCEPT ![r] = [reader |-> a, mode |-> mode, page |-> PageBefore(before),
                                      read |-> participant[a].read]]
    /\ UNCHANGED <<conversation, messages, participant, receipts, blocked, asked, tx, screen,
                   given>>

(* load, while nothing is shown: a later load fences an earlier one. *)
Load(r, a) ==
    /\ screen[a] # NoCommand /\ ~ screen[a].populated
    /\ \A s \in Reads : pages[s] # NoCommand => pages[s].reader # a \/ pages[s].mode # "reset"
    /\ Read(r, a, "reset", Len(messages) + 1)

(* poll, by the timer, a focus or a send, is fenced by nothing. *)
Poll(r, a) == screen[a] # NoCommand /\ Read(r, a, "newer", Len(messages) + 1)

(* loadOlder: the button stays enabled. *)
LoadOlder(r, a) == /\ screen[a] # NoCommand /\ screen[a].oldest # 0
                   /\ Read(r, a, "older", screen[a].oldest)

Known(shown, n) == \E i \in DOMAIN shown : shown[i].sequence = n
ItemOf(items, n) == items[CHOOSE i \in DOMAIN items : items[i].sequence = n]

(* The items that are not shown yet, in their order. *)
Unknown(shown, items) ==
    LET upTo[i \in 0..Len(items)] ==
          IF i = 0 THEN <<>>
          ELSE IF Known(shown, items[i].sequence) THEN upTo[i - 1]
          ELSE Append(upTo[i - 1], items[i])
    IN upTo[Len(items)]

(* apply. *)
Merged(mode, shown, items) ==
    CASE mode = "reset" -> items
      [] mode = "older" -> items \o shown
      [] mode = "newer" ->
           [i \in DOMAIN shown |-> IF Known(items, shown[i].sequence)
                                   THEN ItemOf(items, shown[i].sequence) ELSE shown[i]]
           \o Unknown(shown, items)

(* The answer is applied; the effect marks the last message that is shown.   *)
Apply(r) ==
    LET p == pages[r]  a == p.reader
        shown == Merged(p.mode, screen[a].shown, p.page.items)
        latest == IF shown = <<>> THEN 0 ELSE Last(shown).sequence
        marks == latest > screen[a].marked /\ latest > p.read
    IN
    /\ p # NoCommand
    /\ screen' = [screen EXCEPT ![a] =
         [shown |-> shown,
          oldest |-> IF p.mode = "newer" THEN @.oldest ELSE p.page.oldest,
          populated |-> TRUE,
          marked |-> IF marks THEN latest ELSE @.marked]]
    /\ given' = [given EXCEPT ![a] = @ \cup {m.sequence : m \in ToSet(p.page.items)}]
    /\ pages' = [pages EXCEPT ![r] = NoCommand]
    /\ IF marks
       THEN \E q \in RequestIds : /\ asked[q] = NoCommand
                                /\ asked' = [asked EXCEPT ![q] = Command(a, "read", latest)]
       ELSE asked' = asked
    /\ UNCHANGED <<conversation, messages, participant, receipts, blocked, tx>>

(* The read fails: what is shown stays, a load can be asked for again. *)
LoseRead(r) ==
    /\ pages[r] # NoCommand
    /\ pages' = [pages EXCEPT ![r] = NoCommand]
    /\ UNCHANGED <<conversation, messages, participant, receipts, blocked, asked, tx, screen,
                   given>>

-----------------------------------------------------------------------------
WriteNext ==
    \/ \E t \in Calls, q \in RequestIds :
         \/ ArriveAgain(t, q)
         \/ \E a \in Accounts, kind \in Kinds : Arrive(t, q, a, kind)
    \/ \E t \in Calls : Check(t) \/ Send(t) \/ ChangeParticipant(t) \/ RollBackCall(t)
    \/ SetBlocked
    \/ \E n \in 1..MaxMessages : RemoveMessage(n)

PageNext ==
    \/ \E a \in Accounts : OpenPage(a) \/ ClosePage(a)
    \/ \E r \in Reads, a \in Accounts : Load(r, a) \/ Poll(r, a) \/ LoadOlder(r, a)
    \/ \E r \in Reads : Apply(r) \/ LoseRead(r)

DirectNext == WriteNext \/ PageNext

DirectSpec == DirectInit /\ [][DirectNext]_directVars

-----------------------------------------------------------------------------
(* A send acts once, in every order and repetition.  A pair that was only    *)
(* asked for has the one message of who opened it, and is active exactly     *)
(* since the other answered (adapter.ts: "the initiator commits exactly one  *)
(* message until the recipient's committed reply").  A command that is       *)
(* delivered twice sends one message, and repeated it is answered with this  *)
(* message as it is now, without a text that was removed meanwhile.          *)
SendsActOnce ==
    LET replies == {i \in DOMAIN messages : messages[i].sender # conversation.initiator} IN
    /\ conversation.state = "requested" => Len(messages) = 1 /\ replies = {}
    /\ conversation.state = "active" => replies # {}
    /\ \A i, j \in DOMAIN messages : messages[i].request = messages[j].request => i = j
    /\ \A i \in DOMAIN messages :
          receipts[messages[i].request] = [sequence |-> i, text |-> ~ messages[i].removed]

(* Nothing is missed in a hidden conversation: whatever was sent after it    *)
(* was hidden has brought it back (direct_messages.sql: "a newer eligible    *)
(* message than hidden_before_sequence resurfaces it").                      *)
HiddenUntilSomethingNew ==
    \A a \in Accounts : participant[a].hidden => Len(messages) = participant[a].before

(* The marker of an account ends at a message it was shown or sent itself,   *)
(* however late, repeated or reordered its marks arrive.                     *)
MarkersWereGiven ==
    \A a \in Accounts : LET n == participant[a].read
                        IN n = 0 \/ messages[n].sender = a \/ n \in given[a]

(* "messages ... oldest first" (use-direct-messages.ts:171): what is shown is *)
(* in the order of the sequences, each message once.  No run checks it: in    *)
(* scene "paging" of MCCommunity it fails (README, Observations).             *)
ShownOldestFirst ==
    \A a \in Accounts : screen[a] # NoCommand =>
      \A i, j \in DOMAIN screen[a].shown :
        i < j => screen[a].shown[i].sequence < screen[a].shown[j].sequence
=============================================================================
