----------------------------- MODULE Conversation -----------------------------
(***************************************************************************)
(* One conversation with the chatbot: stream_reply, retry_last and         *)
(* regenerate_last of webapp/chatbot/conversation_manager.py, over the     *)
(* tables chatbot_messages and system_settings (the retry claims). Several *)
(* requests (tabs, double clicks) may run at once; each one interleaves    *)
(* with the others between two statements that touch the database, and the *)
(* conversation may be deleted meanwhile. How a reply is composed is left  *)
(* out: a generation stores a reply, entire or truncated, or raises before *)
(* it has anything to store.                                               *)
(***************************************************************************)
EXTENDS Integers, FiniteSets

CONSTANTS
  Requests,  \* requests the user may have open on this conversation
  MaxId,     \* bound: no operation starts once this many message ids are used
  MayCrash   \* may a worker be killed in the middle of a request?

ASSUME MaxIdAssumption == MaxId \in Nat
ASSUME CrashAssumption == MayCrash \in BOOLEAN

VARIABLES
  msgs,      \* chatbot_messages of the conversation, ordered by their id
  nextId,    \* the next AUTOINCREMENT id
  claims,    \* ids with a chatbot_retry_claim_<id> setting
  gone,      \* has the conversation been deleted?
  kind, pc,  \* per request: which operation it runs and where it is
  target,    \* the user message it answers
  victim,    \* the assistant message it replaces
  charged,   \* does it hold a unit of CHAT_MESSAGES, charged and not refunded?
  stored,    \* has it stored a reply?
  alone      \* history: two requests were never open together, a deletion included

vars == <<msgs, nextId, claims, gone, kind, pc, target, victim, charged, stored, alone>>

Message == [id : Nat, role : {"user", "assistant"}, answers : Nat]

TypeOK ==
  /\ msgs \subseteq Message
  /\ nextId \in Nat \ {0}
  /\ \A m \in msgs : m.id < nextId
  /\ \A m, n \in msgs : m.id = n.id => m = n
  /\ claims \subseteq Nat
  /\ gone \in BOOLEAN
  /\ kind \in [Requests -> {"send", "retry", "regenerate"}]
  /\ pc \in [Requests -> {"idle", "charged", "claiming", "deleting", "billing",
                          "generating", "replied", "failed"}]
  /\ target \in [Requests -> Nat]
  /\ victim \in [Requests -> Nat]
  /\ charged \in [Requests -> BOOLEAN]
  /\ stored \in [Requests -> BOOLEAN]
  /\ alone \in BOOLEAN

Init ==
  /\ msgs = {}
  /\ nextId = 1
  /\ claims = {}
  /\ gone = FALSE
  /\ kind = [r \in Requests |-> "send"]
  /\ pc = [r \in Requests |-> "idle"]
  /\ target = [r \in Requests |-> 0]
  /\ victim = [r \in Requests |-> 0]
  /\ charged = [r \in Requests |-> FALSE]
  /\ stored = [r \in Requests |-> FALSE]
  /\ alone = TRUE

\* m is rows[-1].
Last(m, rows) == m \in rows /\ \A n \in rows : n.id <= m.id
FromUser == {m \in msgs : m.role = "user"}
EndsWith(role) == \E m \in msgs : Last(m, msgs) /\ m.role = role

\* db.add_message; the ids are AUTOINCREMENT: never given again. The foreign key
\* wants the conversation. Mutant: the id does not advance.
AddMessageSameId(role, answers) ==
  /\ ~gone
  /\ msgs' = msgs \cup {[id |-> nextId, role |-> role, answers |-> answers]}
  /\ UNCHANGED nextId

AddMessage(role, answers) ==
  /\ ~gone
  /\ msgs' = msgs \cup {[id |-> nextId, role |-> role, answers |-> answers]}
  /\ nextId' = nextId + 1

Goto(r, from, to) == pc[r] = from /\ pc' = [pc EXCEPT ![r] = to]

Start(r, k, to, paid) ==
  /\ nextId <= MaxId
  /\ Goto(r, "idle", to)
  /\ kind' = [kind EXCEPT ![r] = k]
  /\ charged' = [charged EXCEPT ![r] = paid]
  /\ stored' = [stored EXCEPT ![r] = FALSE]
  /\ UNCHANGED <<msgs, nextId, claims>>

-----------------------------------------------------------------------------
(* stream_reply *)

\* The conversation is there; check_and_increment_quota, whose refusal changes
\* nothing.
Send(r) ==
  /\ ~gone
  /\ Start(r, "send", "charged", TRUE)
  /\ UNCHANGED <<target, victim>>

Post(r) ==
  /\ Goto(r, "charged", "generating")
  /\ AddMessage("user", 0)
  /\ target' = [target EXCEPT ![r] = nextId]
  /\ UNCHANGED <<claims, kind, victim, charged, stored>>

\* The conversation has been deleted since: the insertion raises, before the try.
PostRefused(r) ==
  /\ gone
  /\ Goto(r, "charged", "idle")
  /\ UNCHANGED <<msgs, nextId, claims, kind, target, victim, charged, stored>>

-----------------------------------------------------------------------------
(* retry_last *)

\* Mutant: the last user message is retried, answered or not.
RetryAnswered(r) ==
  \E u \in FromUser :
    /\ Last(u, FromUser)
    /\ Start(r, "retry", "claiming", FALSE)
    /\ target' = [target EXCEPT ![r] = u.id]
    /\ UNCHANGED victim

\* The last message is read and is the user's.
Retry(r) ==
  \E u \in FromUser :
    /\ Last(u, msgs)
    /\ Start(r, "retry", "claiming", FALSE)
    /\ target' = [target EXCEPT ![r] = u.id]
    /\ UNCHANGED victim

\* claim_message_retry: INSERT OR IGNORE, then its rowcount.
ClaimAlwaysFree(id) == id \in Nat  \* mutant: the rowcount is ignored
ClaimFree(id) == id \notin claims

Claim(r) ==
  /\ ClaimFree(target[r])
  /\ Goto(r, "claiming", "generating")
  /\ claims' = claims \cup {target[r]}
  /\ UNCHANGED <<msgs, nextId, kind, target, victim, charged, stored>>

ClaimRefused(r) ==
  /\ ~ClaimFree(target[r])
  /\ Goto(r, "claiming", "idle")
  /\ UNCHANGED <<msgs, nextId, claims, kind, target, victim, charged, stored>>

-----------------------------------------------------------------------------
(* regenerate_last *)

\* The last message is read and is an assistant's; it answers, or so it is
\* taken, the last user message before it.
Regenerate(r) ==
  \E a \in msgs \ FromUser, u \in FromUser :
    /\ Last(a, msgs)
    /\ Last(u, FromUser)
    /\ Start(r, "regenerate", "deleting", FALSE)
    /\ victim' = [victim EXCEPT ![r] = a.id]
    /\ target' = [target EXCEPT ![r] = u.id]

\* Mutant: the rowcount of the DELETE is ignored.
DeleteAgain(r) ==
  /\ Goto(r, "deleting", "billing")
  /\ msgs' = {m \in msgs : m.id # victim[r]}
  /\ UNCHANGED <<nextId, claims, kind, target, victim, charged, stored>>

\* db.delete_message: the request that really deletes the message goes on.
Delete(r) ==
  /\ \E m \in msgs : m.id = victim[r]
  /\ Goto(r, "deleting", "billing")
  /\ msgs' = {m \in msgs : m.id # victim[r]}
  /\ UNCHANGED <<nextId, claims, kind, target, victim, charged, stored>>

DeleteRefused(r) ==
  /\ \A m \in msgs : m.id # victim[r]
  /\ Goto(r, "deleting", "idle")
  /\ UNCHANGED <<msgs, nextId, claims, kind, target, victim, charged, stored>>

\* The quota is consumed only now; other conversations may have used it up, and
\* the deleted reply is then gone.
Bill(r) ==
  /\ \/ Goto(r, "billing", "generating") /\ charged' = [charged EXCEPT ![r] = TRUE]
     \/ Goto(r, "billing", "idle") /\ UNCHANGED charged
  /\ UNCHANGED <<msgs, nextId, claims, kind, target, victim, stored>>

-----------------------------------------------------------------------------
(* The generation, and what each operation does after it *)

\* The reply is stored: all of it, or what had been streamed when the provider
\* failed or the client went away.
Reply(r) ==
  /\ Goto(r, "generating", "replied")
  /\ AddMessage("assistant", target[r])
  /\ stored' = [stored EXCEPT ![r] = TRUE]
  /\ UNCHANGED <<claims, kind, target, victim, charged>>

\* An exception, before or after something was stored; without the conversation
\* nothing can be stored.
Raise(r) ==
  /\ pc[r] \in {"generating", "replied"}
  /\ pc' = [pc EXCEPT ![r] = "failed"]
  /\ UNCHANGED <<msgs, nextId, claims, kind, target, victim, charged, stored>>

\* The finally of retry_last.
Release(r) ==
  claims' = IF EndsWith("assistant") THEN claims ELSE claims \ {target[r]}

\* The except of stream_reply.
RefundableAlways(r) == r \in Requests  \* mutant: a truncated reply is refunded too
Refundable(r) == ~EndsWith("assistant")

Finish(r) ==
  /\ pc[r] \in {"replied", "failed"}
  /\ pc' = [pc EXCEPT ![r] = "idle"]
  /\ IF kind[r] = "retry" THEN Release(r) ELSE UNCHANGED claims
  /\ IF kind[r] = "send" /\ pc[r] = "failed" /\ Refundable(r)
     THEN charged' = [charged EXCEPT ![r] = FALSE]
     ELSE UNCHANGED charged
  /\ UNCHANGED <<msgs, nextId, kind, target, victim, stored>>

\* The worker is killed, or a statement fails where nothing catches it.
Crash(r) ==
  /\ MayCrash
  /\ pc[r] # "idle"
  /\ pc' = [pc EXCEPT ![r] = "idle"]
  /\ UNCHANGED <<msgs, nextId, claims, kind, target, victim, charged, stored>>

Step(r) ==
  \/ Send(r) \/ Post(r) \/ PostRefused(r)
  \/ Retry(r) \/ Claim(r) \/ ClaimRefused(r)
  \/ Regenerate(r) \/ Delete(r) \/ DeleteRefused(r) \/ Bill(r)
  \/ Reply(r) \/ Raise(r) \/ Finish(r) \/ Crash(r)

\* delete_conversation: its messages go with it, and its claims stay.
Erase ==
  /\ ~gone
  /\ gone' = TRUE
  /\ msgs' = {}
  /\ UNCHANGED <<nextId, claims, kind, pc, target, victim, charged, stored>>

Open(r) == pc[r] # "idle"

Next ==
  \/ /\ \E r \in Requests : Step(r)
     /\ alone' = (alone /\ \A q, r \in Requests : Open(q)' /\ Open(r)' => q = r)
     /\ UNCHANGED gone
  \/ /\ Erase
     /\ alone' = (alone /\ \A r \in Requests : ~Open(r))

Spec == Init /\ [][Next]_vars

-----------------------------------------------------------------------------
(* Properties *)

Working(r, k) == kind[r] = k /\ pc[r] \in {"generating", "replied", "failed"}

\* Two requests never retry the same message together ("une seule requete
\* concurrente peut gagner", retry_last), and the claim stands meanwhile.
RetriesExclude ==
  /\ \A r \in Requests : Working(r, "retry") => target[r] \in claims
  /\ \A r, q \in Requests :
       Working(r, "retry") /\ Working(q, "retry") /\ target[r] = target[q] => r = q

\* Two requests never both replace the same reply: it is deleted once, and the
\* other request neither pays nor generates (regenerate_last).
Replacing(r) == pc[r] = "billing" \/ Working(r, "regenerate")
RegenerationsExclude ==
  /\ \A r \in Requests : Replacing(r) => \A m \in msgs : m.id # victim[r]
  /\ \A r, q \in Requests :
       Replacing(r) /\ Replacing(q) /\ victim[r] = victim[q] => r = q

\* A user message has at most one reply, whatever fails or crashes, as long as
\* the user's requests follow one another ("aucun risque de double generation",
\* retry_last; a retry that starts while the message is still being answered for
\* the first time does produce a second reply).
OneReplyPerTurn ==
  alone => \A m, n \in msgs : m.role = "assistant" /\ n.role = "assistant"
                              /\ m.answers = n.answers => m = n

\* A message that is sent and fails is refunded if and only if no part of its
\* reply was stored, as long as the user's requests follow one another
\* (stream_reply: "ne doit jamais laisser ce message facture sans qu'aucune
\* reponse n'ait ete produite", "le quota reste du pour toute reponse reellement
\* delivree, meme tronquee").
BilledIffDelivered ==
  [][\A r \in Requests :
       alone /\ pc[r] = "failed" /\ kind[r] = "send" /\ Finish(r)
         => (charged'[r] <=> stored[r])]_vars
=============================================================================
