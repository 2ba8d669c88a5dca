------------------------------ MODULE LlmAdapter ------------------------------
(***************************************************************************)
(* call_llm (nodes/llm/llm_adapter.py) as several tasks use it at once: the *)
(* response cache every run shares, one budget of attempts for refusals    *)
(* and validation failures, the deterministic repairs of an answer, and    *)
(* what is stored for the next caller.  Every call forces a tool and names *)
(* an output_model, so an answer is always validated.                      *)
(***************************************************************************)
EXTENDS Naturals, FiniteSets

CONSTANTS Calls,              \* invocations of call_llm that may overlap
          Keys,               \* cache keys: everything a request consists of
          Answers,            \* per key the tool outputs a model may produce
          ValidationRetries   \* DEFAULT_VALIDATION_RETRIES

(***************************************************************************)
(* An answer: its shape as it arrives (flat, nested one level too deep or  *)
(* with a stringified list, or structurally wrong), the items of its list  *)
(* field, how many of them are malformed, and what it says.                *)
(***************************************************************************)
AnswerType == [shape: {"flat", "nested", "wrong"}, items: Nat, bad: Nat, says: STRING]

ASSUME CallsAssumption == /\ Answers \in [Keys -> SUBSET AnswerType]
                          /\ ValidationRetries \in Nat

VARIABLES cache,   \* llm_cache: the row of each key
          call     \* per invocation: pc, key, bypass, attempt, answer

adapterVars == <<cache, call>>

Nothing == [shape |-> "none"]     \* no row, and an answer without a tool call

Idle == [pc |-> "idle", key |-> "none", bypass |-> FALSE, attempt |-> 0,
         answer |-> Nothing]

AdapterInit ==
    /\ cache = [k \in Keys |-> Nothing]
    /\ call = [c \in Calls |-> Idle]

---------------------------------------------------------------------------
(* The repairs of an answer, in the order they are tried. *)

\* _unwrap_single_key_wrapper and _coerce_json_string_fields
Repaired(a) == IF a.shape = "nested" THEN [a EXCEPT !.shape = "flat"] ELSE a

Validates(a) == a.shape = "flat" /\ a.bad = 0

\* _salvage_list_items: at most a quarter of a list may be dropped.
Salvageable(a) == a.shape = "flat" /\ a.bad > 0 /\ 4 * a.bad <= a.items

Salvaged(a) == [a EXCEPT !.items = a.items - a.bad, !.bad = 0]

\* What _validate_with_salvage accepts, and what then counts as the answer.
Accepted(a) == Validates(Repaired(a)) \/ Salvageable(Repaired(a))

\* A bug of the kind: the answer is cached as it arrived.
FinalUnrepaired(a) == a

Final(a) ==
    IF Validates(Repaired(a)) THEN Repaired(a) ELSE Salvaged(Repaired(a))

---------------------------------------------------------------------------
(* The steps of one invocation: each ends where the code awaits. *)

MaxAttempts == 1 + ValidationRetries

Ended == {"returned", "raised"}

\* A call that ends keeps its result only.
End(c, pc, answer) ==
    call' = [call EXCEPT ![c].pc = pc, ![c].attempt = 0,
                         ![c].answer = answer]

Invoke(c, k, bypass) ==
    /\ call' = [call EXCEPT ![c] =
         [Idle EXCEPT !.pc = IF bypass THEN "generate" ELSE "lookup",
                      !.key = k, !.bypass = bypass, !.attempt = IF bypass THEN 1 ELSE 0]]
    /\ UNCHANGED cache

\* A hit is validated again: a row that does not fit the model raises.
Hit(c) ==
    LET row == cache[call[c].key]
    IN /\ call[c].pc = "lookup" /\ row # Nothing
       /\ IF Validates(row) THEN End(c, "returned", row)
          ELSE End(c, "raised", Nothing)
       /\ UNCHANGED cache

\* No row, or the read failed, which counts as a miss.
Miss(c) ==
    /\ call[c].pc = "lookup"
    /\ call' = [call EXCEPT ![c].pc = "generate", ![c].attempt = 1]
    /\ UNCHANGED cache

\* The provider's reply is accepted.
Answered(c, a) ==
    /\ call[c].pc = "generate" /\ Accepted(a)
    /\ IF call[c].bypass THEN End(c, "returned", Final(a))
       ELSE call' = [call EXCEPT ![c].pc = "store", ![c].answer = Final(a)]
    /\ UNCHANGED cache

\* One budget for a refusal and for an answer that fails validation.
RetryOrRaise(c) ==
    /\ IF call[c].attempt < MaxAttempts
       THEN call' = [call EXCEPT ![c].attempt = @ + 1]
       ELSE End(c, "raised", Nothing)
    /\ UNCHANGED cache

Invalid(c, a) == call[c].pc = "generate" /\ ~Accepted(a) /\ RetryOrRaise(c)

Refused(c) == call[c].pc = "generate" /\ RetryOrRaise(c)

\* Out of output tokens, or the SDK raised: not retried here.
Fails(c) ==
    /\ call[c].pc = "generate"
    /\ End(c, "raised", Nothing)
    /\ UNCHANGED cache

\* A bug of the kind: the row of whoever finished first is replaced.
UpsertOverwriting(k, a) == cache' = [cache EXCEPT ![k] = a]

\* INSERT ... ON CONFLICT DO NOTHING
Upsert(k, a) == cache' = IF cache[k] = Nothing THEN [cache EXCEPT ![k] = a] ELSE cache

\* write_cache swallows its errors: the caller gets his answer either way.
Store(c) ==
    /\ call[c].pc = "store"
    /\ Upsert(call[c].key, call[c].answer) \/ UNCHANGED cache
    /\ End(c, "returned", call[c].answer)

Reply(c) ==
    \/ /\ call[c].pc = "generate"
       /\ \E a \in Answers[call[c].key] : Answered(c, a) \/ Invalid(c, a)
    \/ Refused(c)
    \/ Fails(c)

CallStep(c) == Hit(c) \/ Miss(c) \/ Reply(c) \/ Store(c)

---------------------------------------------------------------------------

\* Whatever the cache serves fits the model it was requested for: a hit never
\* raises, so a request that once succeeded succeeds from then on.
RowsServe == \A k \in Keys : cache[k] # Nothing => Validates(cache[k])

\* A row never changes: of several tasks that generated for one key the first
\* to store decides for good, and later readers agree (llm_cache_store.py:7).
RowsAreFinal == [][\A k \in Keys : cache[k] # Nothing => (cache'[k] = cache[k])]_adapterVars

===========================================================================
