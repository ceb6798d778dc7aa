------------------------------ MODULE Generation ------------------------------
(***************************************************************************)
(* How the chatbot gets one reply out of its language models:              *)
(* webapp/chatbot/services/llm_fallback_service.py (generate), the choice  *)
(* of a model (provider_manager.py), the rotation of the API keys          *)
(* (ai_provider_key_service.py), the memory of replies (cache.py) and what *)
(* conversation_manager.py stores at the end. One user asks one question,  *)
(* several times over; the requests run in threads of one process.         *)
(***************************************************************************)
EXTENDS Integers, Sequences, FiniteSets

CONSTANTS
  Requests,   \* the requests that ask the question
  Models,     \* couples (provider, model)
  Chain,      \* those of the user's plan whose provider has credentials, in order of
              \* preference
  Keys,       \* API keys of the table ai_provider_api_keys
  KeysOf,     \* per model, the enabled keys of its provider
  Rank,       \* of a key: ORDER BY priority, id
  Fake,       \* the local engine, last resort
  Nobody,     \* no provider
  NoKey,      \* no key of the table: the provider's environment variable
  Budget,     \* LLM_CALLS of the user's day
  LastDay     \* bound: the calendar stops on this day

AllKeys == Keys \cup {NoKey}
Providers == Models \cup {Fake}

ASSUME ChainAssumption == Chain \in Seq(Models) /\ KeysOf \in [Models -> SUBSET Keys]
ASSUME RankAssumption ==
  /\ Rank \in [AllKeys -> Nat]
  /\ \A k, l \in Keys : Rank[k] = Rank[l] => k = l
ASSUME NamesAssumption == Fake \notin Models /\ Nobody \notin Providers /\ NoKey \notin Keys
ASSUME BudgetAssumption == Budget \in Nat /\ LastDay \in Nat

VARIABLES
  fallback,  \* ai_fallback_enabled
  down,      \* _unavailability_cache
  cooling,   \* keys whose quota_exceeded_until is to come
  day,       \* today
  calls,     \* LLM_CALLS consumed today
  cache,     \* per provider of the cache key, the authors of the reply kept there
  pc,        \* per request, where it is
  tried,     \* the models it has selected
  model,     \* the one it is at
  keys,      \* the keys it has left for that one
  yielded,   \* yielded_any
  text,      \* full_reply: the authors of the text sent so far
  info,      \* call_info: the provider named there
  asked,     \* history: the network calls of its turn, in order
  denied,    \* history: has the budget turned it away from a model, and on which day
  left       \* history: a client has left while its reply streamed

local == <<pc, tried, model, keys, yielded, text, info, asked, denied>>
vars == <<fallback, down, cooling, day, calls, cache, local, left>>

Places == {"idle", "selecting", "rotating", "calling", "storing", "done"}

TypeOK ==
  /\ fallback \in BOOLEAN
  /\ down \subseteq Models /\ cooling \subseteq Keys
  /\ day \in 0..LastDay /\ calls \in 0..Budget
  /\ cache \in [Providers \cup {Nobody} -> SUBSET Providers]
  /\ pc \in [Requests -> Places]
  /\ tried \in [Requests -> SUBSET Providers]
  /\ model \in [Requests -> Providers \cup {Nobody}]
  /\ keys \in [Requests -> SUBSET AllKeys]
  /\ yielded \in [Requests -> BOOLEAN]
  /\ text \in [Requests -> SUBSET Providers]
  /\ info \in [Requests -> Providers \cup {Nobody}]
  /\ asked \in [Requests -> Seq(Models \X AllKeys)]
  /\ denied \in [Requests -> {"never", "today", "earlier"}]
  /\ left \in BOOLEAN
  /\ \A r \in Requests : pc[r] \in {"rotating", "calling"} => model[r] \in tried[r] /\ keys[r] # {}

Init ==
  /\ fallback \in BOOLEAN
  /\ down = {} /\ cooling = {}
  /\ day = 0 /\ calls = 0
  /\ cache = [p \in Providers \cup {Nobody} |-> {}]
  /\ pc = [r \in Requests |-> "idle"]
  /\ tried = [r \in Requests |-> {}]
  /\ model = [r \in Requests |-> Nobody]
  /\ keys = [r \in Requests |-> {}]
  /\ yielded = [r \in Requests |-> FALSE]
  /\ text = [r \in Requests |-> {}]
  /\ info = [r \in Requests |-> Nobody]
  /\ asked = [r \in Requests |-> <<>>]
  /\ denied = [r \in Requests |-> "never"]
  /\ left = FALSE

-----------------------------------------------------------------------------
(* Choosing a model and its keys *)

\* select_llm_for_user: the first model of the chain that is neither excluded
\* nor known to be down, else the local engine.
Candidate(p, excluded) == p \notin excluded /\ p \notin down
Selected(p, excluded) ==
  \/ \E i \in DOMAIN Chain :
       /\ p = Chain[i] /\ Candidate(p, excluded)
       /\ \A j \in 1..(i - 1) : ~Candidate(Chain[j], excluded)
  \/ p = Fake /\ \A i \in DOMAIN Chain : ~Candidate(Chain[i], excluded)

\* available_keys_for_rotation, and generate's `candidates`.
Usable(p) == IF p = Fake THEN {} ELSE KeysOf[p] \ cooling
Rotation(p) == IF Usable(p) = {} THEN {NoKey} ELSE Usable(p)
AtKey(r, k) == k \in keys[r] /\ \A l \in keys[r] : Rank[k] <= Rank[l]

\* _generate_assistant_reply: a reply kept in memory is sent as it is, and
\* nothing changes; otherwise one is generated.
Ask(r) ==
  /\ pc[r] = "idle"
  /\ \E p \in Providers : Selected(p, {}) /\ cache[p] = {}
  /\ pc' = [pc EXCEPT ![r] = "selecting"]
  /\ UNCHANGED <<fallback, down, cooling, day, calls, cache, tried, model, keys, yielded, text, info, asked, denied, left>>

\* Mutant: the models already tried are not excluded.
SelectAgain(r) ==
  /\ pc[r] = "selecting"
  /\ \E p \in Providers :
       /\ Selected(p, {})
       /\ model' = [model EXCEPT ![r] = p]
       /\ tried' = [tried EXCEPT ![r] = @ \cup {p}]
       /\ keys' = [keys EXCEPT ![r] = Rotation(p)]
  /\ pc' = [pc EXCEPT ![r] = "rotating"]
  /\ UNCHANGED <<fallback, down, cooling, day, calls, cache, yielded, text, info, asked, denied, left>>

Select(r) ==
  /\ pc[r] = "selecting"
  /\ \E p \in Providers :
       /\ Selected(p, tried[r])
       /\ model' = [model EXCEPT ![r] = p]
       /\ tried' = [tried EXCEPT ![r] = @ \cup {p}]
       /\ keys' = [keys EXCEPT ![r] = Rotation(p)]
  /\ pc' = [pc EXCEPT ![r] = "rotating"]
  /\ UNCHANGED <<fallback, down, cooling, day, calls, cache, yielded, text, info, asked, denied, left>>

-----------------------------------------------------------------------------
(* One attempt *)

\* The network is called if LLM_CALLS can be consumed, once per attempt ...
AffordableOneMore == calls <= Budget  \* mutant
Affordable == calls < Budget

Call(r) ==
  /\ pc[r] = "rotating" /\ model[r] # Fake
  /\ Affordable
  /\ calls' = calls + 1
  /\ \E k \in AllKeys :
       AtKey(r, k) /\ asked' = [asked EXCEPT ![r] = Append(@, <<model[r], k>>)]
  /\ pc' = [pc EXCEPT ![r] = "calling"]
  /\ yielded' = [yielded EXCEPT ![r] = FALSE]
  /\ UNCHANGED <<fallback, down, cooling, day, cache, tried, model, keys, text, info, denied, left>>

CallFake(r) ==
  /\ pc[r] = "rotating" /\ model[r] = Fake
  /\ pc' = [pc EXCEPT ![r] = "calling"]
  /\ yielded' = [yielded EXCEPT ![r] = FALSE]
  /\ UNCHANGED <<fallback, down, cooling, day, calls, cache, tried, model, keys, text, info, asked, denied, left>>

\* ... and otherwise the next model is tried, whatever the setting says.
BudgetExhausted(r) ==
  /\ pc[r] = "rotating" /\ model[r] # Fake
  /\ ~Affordable
  /\ pc' = [pc EXCEPT ![r] = "selecting"]
  /\ denied' = [denied EXCEPT ![r] = IF @ = "never" THEN "today" ELSE @]
  /\ UNCHANGED <<fallback, down, cooling, day, calls, cache, tried, model, keys, yielded, text, info, asked, left>>

Chunk(r) ==
  /\ pc[r] = "calling" /\ ~yielded[r]
  /\ yielded' = [yielded EXCEPT ![r] = TRUE]
  /\ text' = [text EXCEPT ![r] = @ \cup {model[r]}]
  /\ UNCHANGED <<fallback, down, cooling, day, calls, cache, pc, tried, model, keys, info, asked, denied, left>>

Succeed(r) ==
  /\ pc[r] = "calling"
  /\ down' = down \ {model[r]}
  /\ \E k \in AllKeys : AtKey(r, k) /\ cooling' = cooling \ {k}
  /\ info' = [info EXCEPT ![r] = model[r]]
  /\ pc' = [pc EXCEPT ![r] = "storing"]
  /\ UNCHANGED <<fallback, day, calls, cache, tried, model, keys, yielded, text, asked, denied, left>>

\* Where an attempt that failed without a word leads: the next key, the next
\* model, or the exception if the administrator wants no other model.
AfterAnyway(r) == IF keys'[r] # {} THEN "rotating" ELSE "selecting"  \* mutant
After(r) ==
  IF keys'[r] # {} THEN "rotating" ELSE IF fallback THEN "selecting" ELSE "storing"

\* Mutant: only the local engine's failures end the turn.
FinalIfFake(r) == model[r] = Fake
Final(r) == yielded[r] \/ model[r] = Fake

\* The exception of an attempt: a durable one marks the model, and its key if
\* another one takes over.
Fail(r, durable) ==
  /\ pc[r] = "calling"
  /\ durable => model[r] # Fake
  /\ info' = [info EXCEPT ![r] = model[r]]
  /\ down' = IF durable THEN down \cup {model[r]} ELSE down
  /\ \E k \in AllKeys :
       /\ AtKey(r, k)
       /\ keys' = [keys EXCEPT ![r] = @ \ {k}]
       /\ cooling' = IF durable /\ ~Final(r) THEN cooling \cup ({k} \ {NoKey}) ELSE cooling
  /\ pc' = [pc EXCEPT ![r] = IF Final(r) THEN "storing" ELSE After(r)]
  /\ UNCHANGED <<fallback, day, calls, cache, tried, model, yielded, text, asked, denied, left>>

\* GeneratorExit at a `yield`: no handler of generate sees it.
Leave(r) ==
  /\ pc[r] = "calling" /\ yielded[r]
  /\ pc' = [pc EXCEPT ![r] = "storing"]
  /\ left' = TRUE
  /\ UNCHANGED <<fallback, down, cooling, day, calls, cache, tried, model, keys, yielded, text, info, asked, denied>>

-----------------------------------------------------------------------------
(* The end of a turn, and time *)

\* The provider and the model of the key the reply is kept under. Mutant: the
\* preferred model, as in the lookup.
FiledUnderFirst(r) == IF r \in Requests /\ Chain # <<>> THEN Chain[1] ELSE Fake
FiledUnder(r) == info[r]

\* _generate_assistant_reply, finally; the frames of both generators are gone.
Store(r) ==
  /\ pc[r] = "storing"
  /\ cache' = IF text[r] = {} THEN cache ELSE [cache EXCEPT ![FiledUnder(r)] = text[r]]
  /\ pc' = [pc EXCEPT ![r] = "done"]
  /\ tried' = [tried EXCEPT ![r] = {}] /\ keys' = [keys EXCEPT ![r] = {}]
  /\ model' = [model EXCEPT ![r] = Nobody] /\ info' = [info EXCEPT ![r] = Nobody]
  /\ yielded' = [yielded EXCEPT ![r] = FALSE] /\ text' = [text EXCEPT ![r] = {}]
  /\ asked' = [asked EXCEPT ![r] = <<>>] /\ denied' = [denied EXCEPT ![r] = "never"]
  /\ UNCHANGED <<fallback, down, cooling, day, calls, left>>

\* A time-out runs out, other questions push a reply out of the cache.
Expire ==
  /\ \/ \E p \in down : down' = down \ {p} /\ UNCHANGED <<cooling, cache>>
     \/ \E k \in cooling : cooling' = cooling \ {k} /\ UNCHANGED <<down, cache>>
     \/ \E p \in DOMAIN cache : cache' = [cache EXCEPT ![p] = {}] /\ UNCHANGED <<down, cooling>>
  /\ UNCHANGED <<fallback, day, calls, local, left>>

\* The day's row of LLM_CALLS is another one, be it in the middle of a turn.
Midnight ==
  /\ day < LastDay
  /\ day' = day + 1
  /\ calls' = 0
  /\ denied' = [r \in Requests |-> IF denied[r] = "today" THEN "earlier" ELSE denied[r]]
  /\ UNCHANGED <<fallback, down, cooling, cache, pc, tried, model, keys, yielded, text, info, asked, left>>

Turn(r) ==
  \/ Select(r) \/ Call(r) \/ CallFake(r) \/ BudgetExhausted(r)
  \/ Chunk(r) \/ Succeed(r) \/ (\E d \in BOOLEAN : Fail(r, d)) \/ Leave(r) \/ Store(r)

Next == Expire \/ Midnight \/ \E r \in Requests : Ask(r) \/ Turn(r)

Spec == Init /\ [][Next]_vars

\* Every provider call has a time-out (45 s for Gemini and Anthropic).
Fairness == \A r \in Requests : WF_vars(Turn(r))
FairSpec == Spec /\ Fairness

-----------------------------------------------------------------------------
(* Properties *)

\* A reply is the work of one model: no other one takes over after the client
\* has seen a word ("une panne apres avoir deja streame du texte ne peut jamais
\* etre rejouee proprement", generate).
OneVoice ==
  /\ \A r \in Requests : Cardinality(text[r]) <= 1
  /\ \A p \in DOMAIN cache : Cardinality(cache[p]) <= 1

\* A reply is kept under the model that wrote it, and served again only while
\* that model is the one selected ("sans elle, une reponse produite par un
\* fournisseur de repli serait mise en cache sous la cle du fournisseur
\* initialement vise", _generate_assistant_reply).
FiledUnderAuthor == \A p \in Providers : cache[p] \subseteq {p}

\* So it is as long as clients wait for the end of their replies: when one
\* leaves, call_info still names the attempt before the one that was speaking.
FiledUnderAuthorIfHeard == ~left => FiledUnderAuthor

\* A turn never pays for the same model and the same key twice, whatever
\* expires or is repaired meanwhile.
NothingAskedTwice ==
  \A r \in Requests : \A i, j \in DOMAIN asked[r] : asked[r][i] = asked[r][j] => i = j

\* Without automatic fallback a turn calls one model, with all its keys ("on ne
\* bascule JAMAIS vers un AUTRE fournisseur/modele"), also when other turns use up
\* the budget under it: it goes on to the other models then, but calls none. It
\* calls one only if it was turned away before midnight and goes on after.
OneModelWithoutFallback ==
  \A r \in Requests : ~fallback /\ denied[r] # "earlier" =>
    \A i, j \in DOMAIN asked[r] : asked[r][i][1] = asked[r][j][1]

\* Every turn ends: the chain is finite and the local engine ends it.
TurnsEnd == \A r \in Requests : pc[r] = "selecting" ~> pc[r] = "done"
===============================================================================
