------------------------- MODULE BatchJobSubmit_proofs -------------------------
(***************************************************************************)
(* What BatchJobSubmit guarantees for any number of concurrent submissions,*)
(* any streams and templates, and whatever fails.                          *)
(*                                                                         *)
(* FillInv follows the filling in of one handler's requests, where nothing *)
(* but its own map counts.  RecordInv ties a handler's stage to the table  *)
(* and to the provider's jobs.                                             *)
(***************************************************************************)
EXTENDS BatchJobSubmit, RequestCodec_proofs, FiniteSetTheorems

\* Request i of handler c is filled in from the one version c looked up.
FilledFromCache(c, i) ==
    LET q == stream[c][i] IN
    /\ q.template = NoTemplate => resolved[c][i] = q
    /\ q.template \in Templates =>
        /\ cache[c][q.template] # NoConfig
        /\ resolved[c][i] = FilledIn(q, cache[c][q.template])

FillInv ==
    \A c \in Calls :
        /\ stage[c] = "recv" => resolved[c] = <<>>
        /\ stage[c] = "resolve" => Len(resolved[c]) < Len(stream[c])
        /\ stage[c] \in {"submit", "persist", "reply"} => Len(resolved[c]) = Len(stream[c])
        /\ Len(resolved[c]) <= Len(stream[c])
        /\ stage[c] \in {"persist", "reply"} => name[c] \in Names
        /\ \A i \in 1..Len(resolved[c]) : FilledFromCache(c, i)

FormInv == SubmitTypeOK /\ FillInv

-----------------------------------------------------------------------------
\* A request with defaults filled in is a request.
LEMMA FilledInType ==
    ASSUME NEW q \in Request, NEW cfg \in Config
    PROVE  /\ FilledIn(q, cfg) \in Request
           /\ FilledIn(q, cfg).fields = WithDefaults(q.fields, cfg)
<1>1. WithDefaults(q.fields, cfg) \in FieldValues
  BY DEF WithDefaults, FieldValues, ColumnValues, Config, Request
<1>. QED
  BY <1>1 DEF FilledIn, Request

\* What the provider is given are the requests' set fields, one entry for each
\* request.
LEMMA InlinedType ==
    ASSUME NEW reqs \in Seq(Request)
    PROVE  /\ Inlined(reqs) \in Seq(InlinedRequests)
           /\ reqs # <<>> => Inlined(reqs) # <<>>
<1>1. ASSUME NEW q \in Request PROVE [f \in SetFields(q) |-> q.fields[f]] \in InlinedRequests
  <2>1. SetFields(q) \in SUBSET Fields /\ \A f \in SetFields(q) : q.fields[f] \in Values
    BY DEF SetFields, Request, FieldValues
  <2>. QED
    BY <2>1 DEF InlinedRequests
<1>2. DOMAIN reqs = 1..Len(reqs) /\ Len(reqs) \in Nat
  OBVIOUS
<1>3. \A i \in 1..Len(reqs) : Inlined(reqs)[i] \in InlinedRequests
  BY <1>1, <1>2 DEF Inlined
<1>4. Inlined(reqs) = [i \in 1..Len(reqs) |-> Inlined(reqs)[i]]
  BY <1>2 DEF Inlined
<1>5. Inlined(reqs) \in Seq(InlinedRequests) /\ Len(Inlined(reqs)) = Len(reqs)
  <2>. HIDE DEF Inlined
  <2>. QED
    BY <1>2, <1>3, <1>4
<1>. QED
  BY <1>5

\* Requests are messages a blob can hold.
LEMMA WiresType ==
    ASSUME NEW reqs \in Seq(Request)
    PROVE  Wires(reqs) \in Seq(Messages)
BY SubmitAssumption DEF Wires

\* The request a handler is at is one of its stream.
LEMMA CurrentRequestType ==
    ASSUME FormInv, NEW c \in Calls, stage[c] = "resolve"
    PROVE  /\ CurrentRequest(c) \in Request
           /\ Len(resolved[c]) + 1 \in 1..Len(stream[c])
BY DEF FormInv, SubmitTypeOK, FillInv, CurrentRequest

\* The row a handler inserts is one.
LEMMA RowOfType ==
    ASSUME FormInv, NEW c \in Calls, name[c] \in Names
    PROVE  RowOf(c) \in JobRow
<1>1. Marshal(Wires(resolved[c])) \in Seq(Byte) /\ Len(stream[c]) \in Nat
  BY WiresType, MarshalType DEF FormInv, SubmitTypeOK
<1>. QED
  BY <1>1 DEF RowOf, JobRow

\* One more request of handler c is filled in.
LEMMA ResolvedStep ==
    ASSUME FormInv, NEW c \in Calls, stage[c] = "resolve", NEW r \in Request, Resolved(c, r),
           cache' \in [Calls -> [Templates -> Config \cup {NoConfig}]],
           \A d \in Calls \ {c} : cache'[d] = cache[d],
           \A t \in Templates : cache[c][t] # NoConfig => cache'[c][t] = cache[c][t],
           LET q == CurrentRequest(c) IN
               /\ q.template = NoTemplate => r = q
               /\ q.template \in Templates =>
                    cache'[c][q.template] # NoConfig /\ r = FilledIn(q, cache'[c][q.template]),
           UNCHANGED <<configs, table, jobs, stream, name, answer>>
    PROVE  FormInv'
<1>. USE DEF FormInv
<1>1. Len(resolved[c]) + 1 \in 1..Len(stream[c])
  BY CurrentRequestType
<1>2. /\ resolved' = [resolved EXCEPT ![c] = Append(resolved[c], r)]
      /\ stage'[c] = IF Len(resolved[c]) + 1 = Len(stream[c]) THEN "submit" ELSE "resolve"
      /\ \A d \in Calls \ {c} : stage'[d] = stage[d] /\ resolved'[d] = resolved[d]
  BY DEF Resolved, SubmitTypeOK
<1>3. /\ resolved'[c] = Append(resolved[c], r)
      /\ Len(resolved'[c]) = Len(resolved[c]) + 1
      /\ \A i \in 1..Len(resolved[c]) : resolved'[c][i] = resolved[c][i]
      /\ resolved'[c][Len(resolved[c]) + 1] = r
  BY <1>2 DEF SubmitTypeOK
<1>4. SubmitTypeOK'
  <2>1. resolved' \in [Calls -> Seq(Request)]
    <3>1. Append(resolved[c], r) \in Seq(Request)
      BY DEF SubmitTypeOK
    <3>. QED
      BY <1>2, <3>1 DEF SubmitTypeOK
  <2>2. stage' \in [Calls -> {"recv", "resolve", "submit", "persist", "reply", "over"}]
    BY DEF Resolved, SubmitTypeOK
  <2>. QED
    BY <2>1, <2>2 DEF SubmitTypeOK
<1>5. ASSUME NEW d \in Calls \ {c}, NEW i \in 1..Len(resolved'[d]) PROVE FilledFromCache(d, i)'
  <2>1. resolved'[d] = resolved[d] /\ cache'[d] = cache[d] /\ stream'[d] = stream[d]
    BY <1>2
  <2>2. FilledFromCache(d, i)
    BY <1>5, <2>1 DEF FillInv
  <2>. QED
    BY <2>1, <2>2 DEF FilledFromCache
<1>6. ASSUME NEW i \in 1..Len(resolved'[c]) PROVE FilledFromCache(c, i)'
  <2>1. CASE i = Len(resolved[c]) + 1
    BY <1>3, <2>1 DEF FilledFromCache, CurrentRequest
  <2>2. CASE i # Len(resolved[c]) + 1
    <3>1. i \in 1..Len(resolved[c])
      BY <1>3, <2>2 DEF SubmitTypeOK
    <3>2. FilledFromCache(c, i)
      BY <3>1 DEF FillInv
    <3>. QED
      BY <1>3, <3>1, <3>2 DEF FilledFromCache
  <2>. QED
    BY <2>1, <2>2
<1>7. FillInv'
  <2>. SUFFICES ASSUME NEW d \in Calls
       PROVE  /\ stage'[d] = "recv" => resolved'[d] = <<>>
              /\ stage'[d] = "resolve" => Len(resolved'[d]) < Len(stream'[d])
              /\ stage'[d] \in {"submit", "persist", "reply"} => Len(resolved'[d]) = Len(stream'[d])
              /\ Len(resolved'[d]) <= Len(stream'[d])
              /\ stage'[d] \in {"persist", "reply"} => name'[d] \in Names
    BY <1>5, <1>6 DEF FillInv
  <2>1. CASE d = c
    BY <1>1, <1>2, <1>3, <2>1 DEF SubmitTypeOK
  <2>2. CASE d # c
    BY <1>2, <2>2 DEF FillInv
  <2>. QED
    BY <2>1, <2>2
<1>. QED
  BY <1>4, <1>7

\* Nothing but the stage moves, and not to an earlier one.
LEMMA StageStep ==
    ASSUME FormInv, NEW c \in Calls, SubmitTypeOK',
           \A d \in Calls \ {c} : stage'[d] = stage[d] /\ name'[d] = name[d],
           stage'[c] \in {"persist", "reply"} => name'[c] \in Names,
           \/ stage'[c] = "over"
           \/ stage[c] \in {"submit", "persist", "reply"} /\ stage'[c] \in {"submit", "persist", "reply"},
           UNCHANGED <<stream, cache, resolved>>
    PROVE  FormInv'
<1>1. \A d \in Calls : \A i \in 1..Len(resolved[d]) : FilledFromCache(d, i)'
  BY DEF FormInv, FillInv, FilledFromCache
<1>. QED
  BY <1>1 DEF FormInv, FillInv

LEMMA FormInvInit == SubmitInit => FormInv
<1>. SUFFICES ASSUME SubmitInit PROVE FormInv
  OBVIOUS
<1>1. SubmitTypeOK
  BY DEF SubmitInit, PromptInit, SubmitTypeOK
<1>2. FillInv
  BY DEF SubmitInit, FillInv
<1>. QED
  BY <1>1, <1>2 DEF FormInv

LEMMA FormInvNext == FormInv /\ [SubmitNext]_submitVars => FormInv'
<1>. SUFFICES ASSUME FormInv, [SubmitNext]_submitVars PROVE FormInv'
  OBVIOUS
<1>. USE DEF FormInv
<1>1. ASSUME NEW c \in Calls, Receive(c) PROVE FormInv'
  <2>1. PICK s \in Streams : /\ stream' = [stream EXCEPT ![c] = s]
                             /\ stage' = [stage EXCEPT ![c] = IF s = <<>> THEN "submit" ELSE "resolve"]
    BY <1>1 DEF Receive
  <2>2. s \in Seq(Request)
    BY SubmitAssumption
  <2>3. SubmitTypeOK'
    BY <1>1, <2>1, <2>2 DEF Receive, SubmitTypeOK
  <2>4. resolved[c] = <<>> /\ resolved' = resolved /\ cache' = cache
    BY <1>1 DEF Receive, FillInv
  <2>5. ASSUME NEW d \in Calls, NEW i \in 1..Len(resolved'[d]) PROVE FilledFromCache(d, i)'
    <3>1. d # c
      BY <2>4, <2>5
    <3>2. FilledFromCache(d, i) /\ stream'[d] = stream[d]
      BY <2>1, <2>4, <2>5, <3>1 DEF FillInv, SubmitTypeOK
    <3>. QED
      BY <2>4, <3>2 DEF FilledFromCache
  <2>6. s # <<>> => Len(s) > 0
    BY <2>2
  <2>7. FillInv'
    BY <1>1, <2>1, <2>2, <2>4, <2>5, <2>6 DEF Receive, FillInv, SubmitTypeOK
  <2>. QED
    BY <2>3, <2>7
<1>2. ASSUME NEW c \in Calls, ResolvePlain(c) PROVE FormInv'
  <2>1. /\ CurrentRequest(c).template = NoTemplate
        /\ CurrentRequest(c) \in Request
        /\ NoTemplate \notin Templates
    BY <1>2, CurrentRequestType, SubmitAssumption DEF ResolvePlain
  <2>. QED
    BY <1>2, <2>1, ResolvedStep DEF ResolvePlain, SubmitTypeOK
<1>3. ASSUME NEW c \in Calls, ResolveCached(c) PROVE FormInv'
  <2>. DEFINE q == CurrentRequest(c)
              r == FilledIn(q, cache[c][q.template])
  <2>1. /\ q.template \in Templates /\ q.template # NoTemplate
        /\ cache[c][q.template] # NoConfig
        /\ q \in Request
        /\ Resolved(c, r)
    BY <1>3, CurrentRequestType, SubmitAssumption DEF ResolveCached
  <2>2. r \in Request
    BY <2>1, FilledInType DEF SubmitTypeOK
  <2>. HIDE DEF r
  <2>3. q.template \in Templates => r = FilledIn(q, cache'[c][q.template])
    BY <1>3 DEF r, ResolveCached
  <2>. QED
    BY <1>3, <2>1, <2>2, <2>3, ResolvedStep DEF ResolveCached, SubmitTypeOK
<1>4. ASSUME NEW c \in Calls, ResolveLookup(c) PROVE FormInv'
  <2>. DEFINE q == CurrentRequest(c)
              r == FilledIn(q, configs[q.template])
  <2>1. /\ q.template \in Templates /\ q.template # NoTemplate
        /\ cache[c][q.template] = NoConfig
        /\ configs[q.template] # NoConfig
        /\ q \in Request
        /\ cache' = [cache EXCEPT ![c][q.template] = configs[q.template]]
        /\ Resolved(c, r)
    BY <1>4, CurrentRequestType, SubmitAssumption DEF ResolveLookup
  <2>2. r \in Request
    BY <2>1, FilledInType DEF SubmitTypeOK
  <2>. HIDE DEF r
  <2>3. /\ cache' \in [Calls -> [Templates -> Config \cup {NoConfig}]]
        /\ \A d \in Calls \ {c} : cache'[d] = cache[d]
        /\ \A t \in Templates : cache[c][t] # NoConfig => cache'[c][t] = cache[c][t]
        /\ cache'[c][q.template] = configs[q.template]
    BY <2>1 DEF SubmitTypeOK
  <2>4. q.template \in Templates => r = FilledIn(q, cache'[c][q.template])
    BY <2>3 DEF r
  <2>. QED
    BY <1>4, <2>1, <2>2, <2>3, <2>4, ResolvedStep DEF ResolveLookup
<1>5. ASSUME NEW c \in Calls,
             \/ TemplateNotFound(c) \/ ReceiveOrLookupError(c) \/ SubmitRefused(c) \/ Crash(c)
      PROVE  FormInv'
  <2>1. SubmitTypeOK'
    BY <1>5 DEF TemplateNotFound, ReceiveOrLookupError, SubmitRefused, Crash, Answered, SubmitTypeOK
  <2>. QED
    BY <1>5, <2>1, StageStep
       DEF TemplateNotFound, ReceiveOrLookupError, SubmitRefused, Crash, Answered, SubmitTypeOK
<1>6. ASSUME NEW c \in Calls, SubmitBatchJob(c) PROVE FormInv'
  <2>1. PICK n \in Names : jobs' = [jobs EXCEPT ![n] = Inlined(resolved[c])] /\ name' = [name EXCEPT ![c] = n]
    BY <1>6 DEF SubmitBatchJob
  <2>2. /\ stage' = [stage EXCEPT ![c] = "persist"]
        /\ stage[c] = "submit"
        /\ UNCHANGED <<configs, table, stream, cache, resolved, answer>>
        /\ Inlined(resolved[c]) \in Seq(InlinedRequests)
    BY <1>6, InlinedType DEF SubmitBatchJob, SubmitTypeOK
  <2>3. SubmitTypeOK'
    BY <2>1, <2>2 DEF SubmitTypeOK
  <2>. QED
    BY <2>1, <2>2, <2>3, StageStep DEF SubmitTypeOK
<1>7. ASSUME NEW c \in Calls, SubmitError(c) PROVE FormInv'
  <2>1. jobs' \in [Names -> Seq(InlinedRequests)]
    <3>1. Inlined(resolved[c]) \in Seq(InlinedRequests)
      BY InlinedType DEF SubmitTypeOK
    <3>. QED
      BY <1>7, <3>1 DEF SubmitError, SubmitTypeOK
  <2>2. /\ Answered(c, "error")
        /\ UNCHANGED <<configs, table, stream, cache, resolved, name>>
    BY <1>7 DEF SubmitError
  <2>3. SubmitTypeOK'
    BY <2>1, <2>2 DEF Answered, SubmitTypeOK
  <2>. QED
    BY <2>2, <2>3, StageStep DEF Answered, SubmitTypeOK
<1>8. ASSUME NEW c \in Calls, Persist(c) \/ PersistError(c) PROVE FormInv'
  <2>1. RowOf(c) \in JobRow
    <3>1. name[c] \in Names
      BY <1>8 DEF Persist, PersistError, FillInv
    <3>. QED
      BY <3>1, RowOfType
  <2>. HIDE DEF RowOf
  <2>2. /\ table' \in [Ids -> JobRow \cup {NoRow}]
        /\ UNCHANGED <<configs, jobs, stream, cache, resolved, name>>
        /\ answer' \in [Calls -> Names \cup {"none", "error"}]
        /\ stage' \in [Calls -> {"recv", "resolve", "submit", "persist", "reply", "over"}]
    BY <1>8, <2>1 DEF Persist, PersistError, Inserted, Answered, SubmitTypeOK
  <2>3. SubmitTypeOK'
    BY <2>2 DEF SubmitTypeOK
  <2>. QED
    BY <1>8, <2>3, StageStep DEF Persist, PersistError, Answered, SubmitTypeOK, FillInv
<1>9. ASSUME NEW c \in Calls, Reply(c) PROVE FormInv'
  <2>1. SubmitTypeOK'
    BY <1>9 DEF Reply, Answered, SubmitTypeOK, FillInv
  <2>. QED
    BY <1>9, <2>1, StageStep DEF Reply, Answered, SubmitTypeOK
<1>10. ASSUME PromptNext, UNCHANGED <<table, jobs, handlerVars>> PROVE FormInv'
  <2>1. configs' \in [Templates -> Config \cup {NoConfig}]
    <3>1. ASSUME NEW sent \in Contents, NEW created \in {"set", "zero"}
          PROVE  [fields |-> Columns(sent), created |-> created] \in Config
      <4>1. Columns(sent) \in ColumnValues
        BY PromptAssumption DEF Columns, ColumnValues, FieldValues
      <4>. QED
        BY <4>1 DEF Config
    <3>2. ASSUME NEW t \in Templates, UpsertPromptConfig(t) PROVE configs' \in [Templates -> Config \cup {NoConfig}]
      <4>1. PICK sent \in Contents, created \in {"set", "zero"} :
              configs' = [configs EXCEPT ![t] = [fields |-> Columns(sent), created |-> created]]
        BY <3>2 DEF UpsertPromptConfig, Saved
      <4>. QED
        BY <3>1, <4>1 DEF SubmitTypeOK
    <3>. QED
      BY <1>10, <3>2 DEF PromptNext, DeletePromptConfig, SubmitTypeOK
  <2>2. SubmitTypeOK'
    BY <1>10, <2>1 DEF handlerVars, SubmitTypeOK
  <2>. QED
    BY <1>10, <2>2 DEF handlerVars, FillInv, FilledFromCache
<1>11. ASSUME UNCHANGED submitVars PROVE FormInv'
  BY <1>11 DEF submitVars, SubmitTypeOK, FillInv, FilledFromCache
<1>. QED
  BY <1>1, <1>2, <1>3, <1>4, <1>5, <1>6, <1>7, <1>8, <1>9, <1>10, <1>11 DEF SubmitNext, Handle

LEMMA FormInvariant == SubmitSpec => []FormInv
BY FormInvInit, FormInvNext, PTL DEF SubmitSpec

\* Every variable holds a value of its kind.
THEOREM SubmitTypeCorrect == SubmitSpec => []SubmitTypeOK
<1>1. FormInv => SubmitTypeOK
  BY DEF FormInv
<1>. QED
  BY <1>1, FormInvariant, PTL

\* A handler's own map makes each template one version for all requests of the
\* submission, and no request loses what it has of its own.
THEOREM SubmissionUsesOneVersion == SubmitSpec => []OneVersionPerTemplate
<1>1. ASSUME FormInv PROVE OneVersionPerTemplate
  <2>. SUFFICES ASSUME NEW c \in Calls, NEW i \in DOMAIN resolved[c], NEW k \in DOMAIN resolved[c],
                       NEW f \in Fields
       PROVE  /\ stream[c][i].fields[f] # Unset => resolved[c][i].fields[f] = stream[c][i].fields[f]
              /\ (/\ stream[c][i].template = stream[c][k].template
                  /\ stream[c][i].fields[f] = Unset
                  /\ stream[c][k].fields[f] = Unset) => resolved[c][i].fields[f] = resolved[c][k].fields[f]
    BY DEF OneVersionPerTemplate
  <2>1. i \in 1..Len(resolved[c]) /\ k \in 1..Len(resolved[c])
    BY <1>1 DEF FormInv, SubmitTypeOK
  <2>2. i \in 1..Len(stream[c]) /\ k \in 1..Len(stream[c])
    BY <1>1, <2>1 DEF FormInv, SubmitTypeOK, FillInv
  <2>3. stream[c][i] \in Request /\ stream[c][k] \in Request
    BY <1>1, <2>2 DEF FormInv, SubmitTypeOK
  <2>4. /\ stream[c][i].template \in Templates \cup {NoTemplate}
        /\ stream[c][k].template \in Templates \cup {NoTemplate}
    BY <2>3 DEF Request
  <2>5. ASSUME NEW n \in {i, k}
        PROVE  LET q == stream[c][n] IN
               /\ q.template = NoTemplate => resolved[c][n] = q
               /\ q.template \in Templates =>
                    resolved[c][n].fields = WithDefaults(q.fields, cache[c][q.template])
    <3>1. FilledFromCache(c, n)
      BY <1>1, <2>1 DEF FormInv, FillInv
    <3>2. stream[c][n].template \in Templates /\ cache[c][stream[c][n].template] # NoConfig
            => cache[c][stream[c][n].template] \in Config
      BY <1>1 DEF FormInv, SubmitTypeOK
    <3>. QED
      BY <2>3, <3>1, <3>2, FilledInType DEF FilledFromCache
  <2>6. ASSUME NEW n \in {i, k}
        PROVE  LET q == stream[c][n] IN
               /\ q.template = NoTemplate => resolved[c][n].fields[f] = q.fields[f]
               /\ q.template \in Templates =>
                    resolved[c][n].fields[f] = WithDefaults(q.fields, cache[c][q.template])[f]
    BY <2>5
  <2>. DEFINE own(n) == stream[c][n].fields
              cfg == cache[c][stream[c][i].template]
  <2>7. \A n : WithDefaults(own(n), cfg)[f] =
               IF own(n)[f] = Unset /\ cfg.fields[f] # Null THEN cfg.fields[f] ELSE own(n)[f]
    BY DEF WithDefaults
  <2>8. stream[c][i].fields[f] # Unset => resolved[c][i].fields[f] = stream[c][i].fields[f]
    BY <2>4, <2>6, <2>7
  <2>9. (/\ stream[c][i].template = stream[c][k].template
         /\ stream[c][i].fields[f] = Unset
         /\ stream[c][k].fields[f] = Unset) => resolved[c][i].fields[f] = resolved[c][k].fields[f]
    BY <2>4, <2>6, <2>7
  <2>. QED
    BY <2>8, <2>9
<1>. QED
  BY <1>1, FormInvariant, PTL

-----------------------------------------------------------------------------
\* Row r is what one upsert has left.
Upserted(r) == r # NoConfig => \E sent \in Contents : r.fields = Columns(sent)

\* So is every row, and every copy of one.
ContentInv ==
    \A t \in Templates : Upserted(configs[t]) /\ \A c \in Calls : Upserted(cache[c][t])

LEMMA ContentInvNext == FormInv /\ ContentInv /\ [SubmitNext]_submitVars => ContentInv'
<1>. SUFFICES ASSUME FormInv, ContentInv, [SubmitNext]_submitVars PROVE ContentInv'
  OBVIOUS
<1>1. ASSUME UNCHANGED <<configs, cache>> PROVE ContentInv'
  BY <1>1 DEF ContentInv, Upserted
<1>2. ASSUME NEW c \in Calls, ResolveLookup(c) PROVE ContentInv'
  <2>1. PICK t \in Templates : cache' = [cache EXCEPT ![c][t] = configs[t]]
    BY <1>2 DEF ResolveLookup
  <2>2. \A d \in Calls, s \in Templates : cache'[d][s] \in {cache[d][s], configs[s]}
    BY <2>1 DEF FormInv, SubmitTypeOK
  <2>3. UNCHANGED configs
    BY <1>2 DEF ResolveLookup
  <2>. QED
    BY <2>2, <2>3 DEF ContentInv, Upserted
<1>3. ASSUME NEW t \in Templates, UpsertPromptConfig(t), UNCHANGED cache PROVE ContentInv'
  <2>1. PICK sent \in Contents, created \in {"set", "zero"} :
          configs' = [configs EXCEPT ![t] = [fields |-> Columns(sent), created |-> created]]
    BY <1>3 DEF UpsertPromptConfig, Saved
  <2>2. configs'[t].fields = Columns(sent) /\ \A s \in Templates \ {t} : configs'[s] = configs[s]
    BY <2>1 DEF FormInv, SubmitTypeOK
  <2>. QED
    BY <1>3, <2>2 DEF ContentInv, Upserted
<1>4. ASSUME NEW t \in Templates, DeletePromptConfig(t), UNCHANGED cache PROVE ContentInv'
  <2>1. \A s \in Templates : configs'[s] \in {configs[s], NoConfig}
    BY <1>4 DEF DeletePromptConfig, FormInv, SubmitTypeOK
  <2>. QED
    BY <1>4, <2>1 DEF ContentInv, Upserted
<1>5. ASSUME NEW c \in Calls, Handle(c) PROVE ContentInv'
  BY <1>1, <1>2, <1>5
     DEF Handle, Receive, ReceiveOrLookupError, ResolvePlain, ResolveCached, TemplateNotFound,
         SubmitRefused, SubmitBatchJob, SubmitError, Persist, PersistError, Reply, Crash
<1>. QED
  BY <1>1, <1>3, <1>4, <1>5 DEF SubmitNext, PromptNext, handlerVars, submitVars

\* What was sent is what is shown.
LEMMA ShownAsSent ==
    ASSUME NEW r, NEW sent \in Contents, r.fields = Columns(sent)
    PROVE  Shown(r) = sent
<1>1. sent \in FieldValues /\ Null \notin Values
  BY PromptAssumption
<1>2. ASSUME NEW f \in Fields PROVE Shown(r)[f] = sent[f]
  <2>1. Columns(sent)[f] = IF sent[f] = Unset THEN Null ELSE sent[f]
    BY DEF Columns
  <2>2. Shown(r)[f] = IF Columns(sent)[f] = Null THEN Unset ELSE Columns(sent)[f]
    BY DEF Shown
  <2>3. sent[f] # Unset => sent[f] # Null
    BY <1>1 DEF FieldValues
  <2>. QED
    BY <2>1, <2>2, <2>3
<1>3. Shown(r) = [f \in Fields |-> sent[f]]
  BY <1>2 DEF Shown
<1>4. sent = [f \in Fields |-> sent[f]]
  BY <1>1 DEF FieldValues
<1>. QED
  BY <1>3, <1>4

\* Upserts replace whole configs, lookups copy them, and requests are filled in
\* from the copy: no step mixes two versions, whatever runs alongside.
THEOREM ConfigsAreFilledInAsUpserted == SubmitSpec => []FilledAsUpserted
<1>1. SubmitInit => ContentInv
  <2>. SUFFICES ASSUME SubmitInit, NEW t \in Templates
       PROVE  Upserted(configs[t]) /\ \A c \in Calls : Upserted(cache[c][t])
    BY DEF ContentInv
  <2>1. configs[t] = NoConfig
    BY DEF SubmitInit, PromptInit
  <2>2. \A c \in Calls : cache[c][t] = NoConfig
    BY DEF SubmitInit
  <2>. QED
    BY <2>1, <2>2 DEF Upserted
<1>2. SubmitSpec => []ContentInv
  BY <1>1, ContentInvNext, FormInvariant, PTL DEF SubmitSpec
<1>3. ASSUME FormInv, ContentInv PROVE FilledAsUpserted
  <2>. SUFFICES ASSUME NEW c \in Calls, NEW t \in Templates, cache[c][t] # NoConfig
       PROVE  \E sent \in Contents :
                /\ Shown(cache[c][t]) = sent
                /\ \A i \in DOMAIN resolved[c], f \in Fields :
                    /\ stream[c][i].template = t
                    /\ stream[c][i].fields[f] = Unset
                    => resolved[c][i].fields[f] = sent[f]
    BY DEF FilledAsUpserted
  <2>1. PICK sent \in Contents : cache[c][t].fields = Columns(sent)
    BY <1>3 DEF ContentInv, Upserted
  <2>2. ASSUME NEW i \in DOMAIN resolved[c], NEW f \in Fields,
               stream[c][i].template = t, stream[c][i].fields[f] = Unset
        PROVE  resolved[c][i].fields[f] = sent[f]
    <3>1. i \in 1..Len(resolved[c]) /\ i \in 1..Len(stream[c])
      BY <1>3 DEF FormInv, SubmitTypeOK, FillInv
    <3>2. stream[c][i] \in Request /\ cache[c][t] \in Config
      BY <1>3, <3>1 DEF FormInv, SubmitTypeOK
    <3>3. resolved[c][i] = FilledIn(stream[c][i], cache[c][t])
      BY <1>3, <2>2, <3>1 DEF FormInv, FillInv, FilledFromCache
    <3>4. resolved[c][i].fields = WithDefaults(stream[c][i].fields, cache[c][t])
      BY <3>2, <3>3, FilledInType
    <3>5. resolved[c][i].fields[f] = IF Columns(sent)[f] # Null THEN Columns(sent)[f] ELSE Unset
      BY <2>1, <2>2, <3>4 DEF WithDefaults
    <3>6. Columns(sent)[f] = IF sent[f] = Unset THEN Null ELSE sent[f]
      BY DEF Columns
    <3>7. sent[f] # Unset => sent[f] # Null
      BY PromptAssumption DEF FieldValues
    <3>. QED
      BY <3>5, <3>6, <3>7
  <2>. QED
    BY <2>1, <2>2, ShownAsSent
<1>. QED
  BY <1>2, <1>3, FormInvariant, PTL

-----------------------------------------------------------------------------
\* A handler's stage, its job at the provider and the job's row go together.
HandlerInv ==
    \A c \in Calls :
        /\ name[c] \in Names => resolved[c] # <<>> /\ jobs[name[c]] = Inlined(resolved[c])
        /\ stage[c] \in {"recv", "resolve", "submit"} => name[c] = NoName
        /\ stage[c] = "persist" => ~Recorded(name[c])
        /\ stage[c] = "reply" => Recorded(name[c])
        /\ answer[c] \in Names => Recorded(answer[c])
        /\ \A d \in Calls \ {c} : name[c] \in Names => name[d] # name[c]

\* Row r is the one of handler c.
RowIsOf(r, c) ==
    /\ name[c] \in Names
    /\ r.reference = name[c]
    /\ r.requestProto = Marshal(Wires(resolved[c]))
    /\ r.length = Len(resolved[c])

RowInv ==
    \A i \in Ids :
        table[i] # NoRow =>
            /\ \E c \in Calls : RowIsOf(table[i], c)
            /\ \A k \in Ids \ {i} : table[k] # NoRow => table[k].reference # table[i].reference

RecordInv == HandlerInv /\ RowInv

\* A named job is the provider's for good, and so is a row's.
LEMMA RowsAreOfJobs ==
    ASSUME RecordInv, FormInv
    PROVE  /\ \A c \in Calls : name[c] \in Names => name[c] \in Created
           /\ \A i \in Ids : table[i] # NoRow => table[i].reference \in Created
<1>1. ASSUME NEW c \in Calls, name[c] \in Names PROVE name[c] \in Created
  <2>1. resolved[c] \in Seq(Request) /\ resolved[c] # <<>> /\ jobs[name[c]] = Inlined(resolved[c])
    BY <1>1 DEF RecordInv, HandlerInv, FormInv, SubmitTypeOK
  <2>. QED
    BY <1>1, <2>1, InlinedType DEF Created
<1>. QED
  BY <1>1 DEF RecordInv, RowInv, RowIsOf

\* What a row holds of its handler does not change once the job has its name.
LEMMA RowKept ==
    ASSUME RecordInv, NEW i \in Ids, table[i] # NoRow,
           \A d \in Calls : name[d] \in Names => name'[d] = name[d] /\ resolved'[d] = resolved[d]
    PROVE  \E c \in Calls : RowIsOf(table[i], c) /\ name'[c] \in Names /\ table[i].reference = name'[c]
               /\ table[i].requestProto = Marshal(Wires(resolved'[c]))
               /\ table[i].length = Len(resolved'[c])
BY DEF RecordInv, RowInv, RowIsOf

\* A handler that ends, or moves on without touching the table, keeps the invariant.
LEMMA NothingRecorded ==
    ASSUME RecordInv, FormInv, NEW c \in Calls,
           \A d \in Calls \ {c} : stage'[d] = stage[d] /\ answer'[d] = answer[d] /\ resolved'[d] = resolved[d],
           stage'[c] \in {"resolve", "submit"} => name[c] = NoName,
           stage'[c] \notin {"persist", "reply", "recv"},
           answer'[c] \in Names => Recorded(answer[c])',
           name[c] = NoName \/ UNCHANGED resolved,
           UNCHANGED <<table, jobs, name>>
    PROVE  RecordInv'
<1>1. RowInv'
  <2>1. \A d \in Calls : name[d] \in Names => name'[d] = name[d] /\ resolved'[d] = resolved[d]
    BY SubmitAssumption
  <2>. QED
    BY <2>1, RowKept DEF RecordInv, RowInv, RowIsOf
<1>2. HandlerInv'
  <2>. SUFFICES ASSUME NEW d \in Calls
       PROVE  /\ name'[d] \in Names => resolved'[d] # <<>> /\ jobs'[name'[d]] = Inlined(resolved'[d])
              /\ stage'[d] \in {"recv", "resolve", "submit"} => name'[d] = NoName
              /\ stage'[d] = "persist" => ~Recorded(name[d])'
              /\ stage'[d] = "reply" => Recorded(name[d])'
              /\ answer'[d] \in Names => Recorded(answer[d])'
              /\ \A e \in Calls \ {d} : name'[d] \in Names => name'[e] # name'[d]
    BY DEF HandlerInv
  <2>1. CASE d = c
    BY <2>1, SubmitAssumption DEF RecordInv, HandlerInv, Recorded
  <2>2. CASE d # c
    BY <2>2 DEF RecordInv, HandlerInv, Recorded
  <2>. QED
    BY <2>1, <2>2
<1>. QED
  BY <1>1, <1>2 DEF RecordInv

\* The provider takes one more job, maybe without telling the handler.
LEMMA JobCreated ==
    ASSUME RecordInv, FormInv, NEW c \in Calls, stage[c] = "submit", resolved[c] # <<>>,
           NEW n \in Names \ Created, jobs' = [jobs EXCEPT ![n] = Inlined(resolved[c])],
           \A d \in Calls \ {c} : stage'[d] = stage[d] /\ answer'[d] = answer[d] /\ name'[d] = name[d],
           \/ stage'[c] = "persist" /\ name'[c] = n /\ answer'[c] = answer[c]
           \/ stage'[c] = "over" /\ name'[c] = name[c] /\ answer'[c] = "error",
           UNCHANGED <<table, resolved>>
    PROVE  RecordInv'
<1>1. /\ name[c] = NoName
      /\ \A d \in Calls : name[d] # n
      /\ \A i \in Ids : table[i] # NoRow => table[i].reference # n
  BY RowsAreOfJobs DEF RecordInv, HandlerInv
<1>2. jobs'[n] = Inlined(resolved[c]) /\ \A m \in Names \ {n} : jobs'[m] = jobs[m]
  BY DEF FormInv, SubmitTypeOK
<1>3. RowInv'
  <2>1. \A d \in Calls : name[d] \in Names => name'[d] = name[d] /\ resolved'[d] = resolved[d]
    BY <1>1, SubmitAssumption
  <2>. QED
    BY <2>1, RowKept DEF RecordInv, RowInv, RowIsOf
<1>4. HandlerInv'
  <2>. SUFFICES ASSUME NEW d \in Calls
       PROVE  /\ name'[d] \in Names => resolved'[d] # <<>> /\ jobs'[name'[d]] = Inlined(resolved'[d])
              /\ stage'[d] \in {"recv", "resolve", "submit"} => name'[d] = NoName
              /\ stage'[d] = "persist" => ~Recorded(name[d])'
              /\ stage'[d] = "reply" => Recorded(name[d])'
              /\ answer'[d] \in Names => Recorded(answer[d])'
              /\ \A e \in Calls \ {d} : name'[d] \in Names => name'[e] # name'[d]
    BY DEF HandlerInv
  <2>1. CASE d = c
    BY <1>1, <1>2, <2>1, SubmitAssumption DEF RecordInv, HandlerInv, Recorded
  <2>2. CASE d # c
    BY <1>1, <1>2, <2>2 DEF RecordInv, HandlerInv, Recorded
  <2>. QED
    BY <2>1, <2>2
<1>. QED
  BY <1>3, <1>4 DEF RecordInv

\* The row of handler c is inserted, whether or not the handler gets to know.
LEMMA RowInserted ==
    ASSUME RecordInv, FormInv, NEW c \in Calls, stage[c] = "persist",
           NEW i \in Ids, table[i] = NoRow, table' = [table EXCEPT ![i] = RowOf(c)],
           \A d \in Calls \ {c} : stage'[d] = stage[d] /\ answer'[d] = answer[d],
           \/ stage'[c] = "reply" /\ answer'[c] = answer[c]
           \/ stage'[c] = "over" /\ answer'[c] = "error",
           UNCHANGED <<jobs, resolved, name>>
    PROVE  RecordInv'
<1>1. /\ name[c] \in Names /\ ~Recorded(name[c])
      /\ jobs[name[c]] = Inlined(resolved[c]) /\ resolved[c] # <<>>
  BY DEF FormInv, FillInv, RecordInv, HandlerInv
<1>2. /\ RowOf(c).reference = name[c]
      /\ RowOf(c).requestProto = Marshal(Wires(resolved[c]))
      /\ RowOf(c).length = Len(resolved[c])
  BY DEF RowOf, FormInv, FillInv
<1>3. RowOf(c) # NoRow
  <2>1. RowOf(c) \in JobRow
    BY <1>1, RowOfType
  <2>. QED
    BY <2>1, SubmitAssumption DEF JobRow
<1>4. table'[i] = RowOf(c) /\ \A k \in Ids \ {i} : table'[k] = table[k]
  BY DEF FormInv, SubmitTypeOK
<1>5. RowInv'
  <2>1. \A k \in Ids : table[k] # NoRow => table[k].reference # name[c]
    BY <1>1 DEF Recorded
  <2>2. ASSUME NEW k \in Ids, table'[k] # NoRow PROVE \E d \in Calls : RowIsOf(table[k], d)'
    <3>1. CASE k = i
      BY <1>1, <1>2, <1>4, <3>1 DEF RowIsOf
    <3>2. CASE k # i
      BY <1>4, <2>2, <3>2, RowKept DEF RowIsOf
    <3>. QED
      BY <3>1, <3>2
  <2>3. ASSUME NEW k \in Ids, table'[k] # NoRow, NEW m \in Ids \ {k}, table'[m] # NoRow
        PROVE  table'[m].reference # table'[k].reference
    BY <1>2, <1>4, <2>1, <2>3 DEF RecordInv, RowInv
  <2>. QED
    BY <2>2, <2>3 DEF RowInv
<1>6. Recorded(name[c])'
  BY <1>2, <1>3, <1>4 DEF Recorded
<1>7. \A n : n # name[c] => (Recorded(n)' <=> Recorded(n))
  BY <1>2, <1>4 DEF Recorded
<1>8. HandlerInv'
  <2>. SUFFICES ASSUME NEW d \in Calls
       PROVE  /\ name'[d] \in Names => resolved'[d] # <<>> /\ jobs'[name'[d]] = Inlined(resolved'[d])
              /\ stage'[d] \in {"recv", "resolve", "submit"} => name'[d] = NoName
              /\ stage'[d] = "persist" => ~Recorded(name[d])'
              /\ stage'[d] = "reply" => Recorded(name[d])'
              /\ answer'[d] \in Names => Recorded(answer[d])'
              /\ \A e \in Calls \ {d} : name'[d] \in Names => name'[e] # name'[d]
    BY DEF HandlerInv
  <2>1. answer'[d] \in Names => answer'[d] = answer[d]
    BY SubmitAssumption
  <2>2. answer[d] \in Names => Recorded(answer[d])
    BY DEF RecordInv, HandlerInv
  <2>3. answer'[d] \in Names => Recorded(answer[d])'
    BY <1>2, <1>3, <1>4, <2>1, <2>2 DEF Recorded
  <2>4. CASE d = c
    BY <1>1, <1>6, <2>3, <2>4 DEF RecordInv, HandlerInv, Recorded
  <2>5. CASE d # c
    <3>1. name[d] # name[c]
      BY <1>1, <2>5 DEF RecordInv, HandlerInv
    <3>2. Recorded(name[d])' <=> Recorded(name[d])
      BY <1>2, <1>4, <3>1 DEF Recorded
    <3>. QED
      BY <2>3, <2>5, <3>2 DEF RecordInv, HandlerInv
  <2>. QED
    BY <2>4, <2>5
<1>. QED
  BY <1>5, <1>8 DEF RecordInv

LEMMA RecordInvInit == SubmitInit => RecordInv
BY SubmitAssumption DEF SubmitInit, RecordInv, HandlerInv, RowInv, Recorded

LEMMA RecordInvNext == FormInv /\ RecordInv /\ [SubmitNext]_submitVars => RecordInv'
<1>. SUFFICES ASSUME FormInv, RecordInv, [SubmitNext]_submitVars PROVE RecordInv'
  OBVIOUS
<1>1. ASSUME NEW c \in Calls,
             \/ Receive(c) \/ ResolvePlain(c) \/ ResolveCached(c) \/ ResolveLookup(c)
      PROVE  RecordInv'
  <2>1. stage[c] \in {"recv", "resolve"} /\ stage'[c] \in {"resolve", "submit"}
    BY <1>1 DEF Receive, ResolvePlain, ResolveCached, ResolveLookup, Resolved, FormInv, SubmitTypeOK
  <2>2. /\ \A d \in Calls \ {c} : stage'[d] = stage[d] /\ resolved'[d] = resolved[d]
        /\ UNCHANGED <<table, jobs, name, answer>>
    BY <1>1 DEF Receive, ResolvePlain, ResolveCached, ResolveLookup, Resolved, FormInv, SubmitTypeOK
  <2>3. name[c] = NoName
    BY <2>1 DEF RecordInv, HandlerInv
  <2>4. answer'[c] \in Names => Recorded(answer[c])'
    BY <2>2 DEF RecordInv, HandlerInv, Recorded
  <2>. QED
    BY <2>1, <2>2, <2>3, <2>4, NothingRecorded
<1>2. ASSUME NEW c \in Calls, Answered(c, "error"), UNCHANGED <<table, jobs, resolved, name>>
      PROVE  RecordInv'
  <2>1. stage'[c] = "over" /\ answer'[c] = "error"
    BY <1>2 DEF Answered, FormInv, SubmitTypeOK
  <2>2. \A d \in Calls \ {c} : stage'[d] = stage[d] /\ answer'[d] = answer[d] /\ resolved'[d] = resolved[d]
    BY <1>2 DEF Answered, FormInv, SubmitTypeOK
  <2>. QED
    BY <1>2, <2>1, <2>2, SubmitAssumption, NothingRecorded
<1>3. ASSUME NEW c \in Calls,
             TemplateNotFound(c) \/ ReceiveOrLookupError(c) \/ SubmitRefused(c) \/ Crash(c)
      PROVE  RecordInv'
  BY <1>2, <1>3 DEF TemplateNotFound, ReceiveOrLookupError, SubmitRefused, Crash
<1>4. ASSUME NEW c \in Calls, SubmitBatchJob(c) PROVE RecordInv'
  <2>1. PICK n \in Names \ Created : jobs' = [jobs EXCEPT ![n] = Inlined(resolved[c])] /\ name' = [name EXCEPT ![c] = n]
    BY <1>4 DEF SubmitBatchJob
  <2>2. stage[c] = "submit" /\ resolved[c] # <<>> /\ UNCHANGED <<table, resolved, answer>>
    BY <1>4 DEF SubmitBatchJob, Refused
  <2>3. stage'[c] = "persist" /\ name'[c] = n
    BY <1>4, <2>1 DEF SubmitBatchJob, FormInv, SubmitTypeOK
  <2>4. \A d \in Calls \ {c} : stage'[d] = stage[d] /\ answer'[d] = answer[d] /\ name'[d] = name[d]
    BY <1>4, <2>1 DEF SubmitBatchJob, FormInv, SubmitTypeOK
  <2>. QED
    BY <2>1, <2>2, <2>3, <2>4, JobCreated
<1>5. ASSUME NEW c \in Calls, SubmitError(c) PROVE RecordInv'
  <2>1. /\ stage[c] = "submit" /\ resolved[c] # <<>>
        /\ Answered(c, "error")
        /\ UNCHANGED <<table, resolved, name>>
    BY <1>5 DEF SubmitError, Refused
  <2>2. stage'[c] = "over" /\ answer'[c] = "error"
    BY <2>1 DEF Answered, FormInv, SubmitTypeOK
  <2>3. \A d \in Calls \ {c} : stage'[d] = stage[d] /\ answer'[d] = answer[d] /\ name'[d] = name[d]
    BY <2>1 DEF Answered, FormInv, SubmitTypeOK
  <2>4. CASE UNCHANGED jobs
    BY <1>2, <2>1, <2>4
  <2>5. CASE \E n \in Names \ Created : jobs' = [jobs EXCEPT ![n] = Inlined(resolved[c])]
    BY <2>1, <2>2, <2>3, <2>5, JobCreated
  <2>. QED
    BY <1>5, <2>4, <2>5 DEF SubmitError
<1>6. ASSUME NEW c \in Calls, Persist(c) PROVE RecordInv'
  <2>1. stage[c] = "persist" /\ UNCHANGED <<jobs, resolved, name>>
    BY <1>6 DEF Persist
  <2>2. ASSUME NEW i \in Ids, table[i] = NoRow, table' = [table EXCEPT ![i] = RowOf(c)],
               stage' = [stage EXCEPT ![c] = "reply"], UNCHANGED answer
        PROVE  RecordInv'
    <3>1. stage'[c] = "reply" /\ \A d \in Calls \ {c} : stage'[d] = stage[d]
      BY <2>2 DEF FormInv, SubmitTypeOK
    <3>. QED
      BY <2>1, <2>2, <3>1, RowInserted
  <2>3. ASSUME UNCHANGED table, Answered(c, "error") PROVE RecordInv'
    BY <1>2, <2>1, <2>3
  <2>. QED
    BY <1>6, <2>2, <2>3 DEF Persist, Inserted
<1>7. ASSUME NEW c \in Calls, PersistError(c) PROVE RecordInv'
  <2>1. stage[c] = "persist" /\ Answered(c, "error") /\ UNCHANGED <<jobs, resolved, name>>
    BY <1>7 DEF PersistError
  <2>2. CASE UNCHANGED table
    BY <1>2, <2>1, <2>2
  <2>3. ASSUME NEW i \in Ids, table[i] = NoRow, table' = [table EXCEPT ![i] = RowOf(c)]
        PROVE  RecordInv'
    <3>1. stage'[c] = "over" /\ answer'[c] = "error"
      BY <2>1 DEF Answered, FormInv, SubmitTypeOK
    <3>2. \A d \in Calls \ {c} : stage'[d] = stage[d] /\ answer'[d] = answer[d]
      BY <2>1 DEF Answered, FormInv, SubmitTypeOK
    <3>. QED
      BY <2>1, <2>3, <3>1, <3>2, RowInserted
  <2>. QED
    BY <1>7, <2>2, <2>3 DEF PersistError, Inserted
<1>8. ASSUME NEW c \in Calls, Reply(c) PROVE RecordInv'
  <2>1. stage[c] = "reply" /\ UNCHANGED <<table, jobs, resolved, name>>
    BY <1>8 DEF Reply
  <2>2. CASE Answered(c, "error")
    BY <1>2, <2>1, <2>2
  <2>3. CASE Answered(c, name[c])
    <3>1. stage'[c] = "over" /\ answer'[c] = name[c]
      BY <2>3 DEF Answered, FormInv, SubmitTypeOK
    <3>2. \A d \in Calls \ {c} : stage'[d] = stage[d] /\ answer'[d] = answer[d] /\ resolved'[d] = resolved[d]
      BY <2>1, <2>3 DEF Answered, FormInv, SubmitTypeOK
    <3>3. Recorded(answer[c])'
      BY <2>1, <3>1 DEF RecordInv, HandlerInv, Recorded
    <3>. QED
      BY <2>1, <3>1, <3>2, <3>3, NothingRecorded
  <2>. QED
    BY <1>8, <2>2, <2>3 DEF Reply
<1>9. ASSUME UNCHANGED <<table, jobs, handlerVars>> PROVE RecordInv'
  BY <1>9 DEF handlerVars, RecordInv, HandlerInv, RowInv, RowIsOf, Recorded
<1>. QED
  BY <1>1, <1>3, <1>4, <1>5, <1>6, <1>7, <1>8, <1>9
     DEF SubmitNext, Handle, submitVars, handlerVars

LEMMA RecordInvariant == SubmitSpec => []RecordInv
BY RecordInvInit, RecordInvNext, FormInvariant, PTL DEF SubmitSpec

\* A client is told once, at the end, and of the handler's own job, whose
\* requests have all been filled in.
AnswerInv ==
    \A c \in Calls :
        /\ stage[c] # "over" => answer[c] = "none"
        /\ answer[c] \in Names => name[c] = answer[c] /\ Len(resolved[c]) = Len(stream[c])

LEMMA AnswerInvNext == FormInv /\ AnswerInv /\ [SubmitNext]_submitVars => AnswerInv'
<1>. SUFFICES ASSUME FormInv, AnswerInv, [SubmitNext]_submitVars PROVE AnswerInv'
  OBVIOUS
<1>. USE DEF FormInv
<1>1. ASSUME NEW c \in Calls,
             \/ Receive(c) \/ ResolvePlain(c) \/ ResolveCached(c) \/ ResolveLookup(c)
      PROVE  AnswerInv'
  <2>1. /\ stage[c] # "over"
        /\ \A d \in Calls \ {c} : stage'[d] = stage[d] /\ resolved'[d] = resolved[d] /\ stream'[d] = stream[d]
        /\ UNCHANGED <<name, answer>>
    BY <1>1 DEF Receive, ResolvePlain, ResolveCached, ResolveLookup, Resolved, SubmitTypeOK
  <2>2. answer[c] = "none" /\ answer[c] \notin Names
    BY <2>1, SubmitAssumption DEF AnswerInv
  <2>. QED
    BY <2>1, <2>2 DEF AnswerInv
<1>2. ASSUME NEW c \in Calls, Answered(c, "error"), UNCHANGED <<stream, resolved, name>>
      PROVE  AnswerInv'
  <2>1. /\ stage'[c] = "over" /\ answer'[c] = "error" /\ answer'[c] \notin Names
        /\ \A d \in Calls \ {c} : stage'[d] = stage[d] /\ answer'[d] = answer[d]
    BY <1>2, SubmitAssumption DEF Answered, SubmitTypeOK
  <2>. QED
    BY <1>2, <2>1 DEF AnswerInv
<1>3. ASSUME NEW c \in Calls,
             \/ TemplateNotFound(c) \/ ReceiveOrLookupError(c) \/ SubmitRefused(c) \/ SubmitError(c)
             \/ PersistError(c) \/ Crash(c)
      PROVE  AnswerInv'
  BY <1>2, <1>3
     DEF TemplateNotFound, ReceiveOrLookupError, SubmitRefused, SubmitError, PersistError, Crash
<1>4. ASSUME NEW c \in Calls, SubmitBatchJob(c) PROVE AnswerInv'
  <2>1. /\ stage[c] = "submit"
        /\ \A d \in Calls \ {c} : stage'[d] = stage[d] /\ name'[d] = name[d]
        /\ UNCHANGED <<stream, resolved, answer>>
    BY <1>4 DEF SubmitBatchJob, SubmitTypeOK
  <2>2. answer[c] = "none" /\ answer[c] \notin Names
    BY <2>1, SubmitAssumption DEF AnswerInv
  <2>. QED
    BY <2>1, <2>2 DEF AnswerInv
<1>5. ASSUME NEW c \in Calls, Persist(c) PROVE AnswerInv'
  <2>1. ASSUME stage' = [stage EXCEPT ![c] = "reply"], UNCHANGED <<stream, resolved, name, answer>>
        PROVE  AnswerInv'
    BY <1>5, <2>1 DEF Persist, AnswerInv, SubmitTypeOK
  <2>. QED
    BY <1>2, <1>5, <2>1 DEF Persist
<1>6. ASSUME NEW c \in Calls, Reply(c) PROVE AnswerInv'
  <2>1. ASSUME Answered(c, name[c]) PROVE AnswerInv'
    <3>1. /\ stage'[c] = "over" /\ answer'[c] = name[c]
          /\ \A d \in Calls \ {c} : stage'[d] = stage[d] /\ answer'[d] = answer[d]
      BY <2>1 DEF Answered, SubmitTypeOK
    <3>2. Len(resolved[c]) = Len(stream[c]) /\ UNCHANGED <<stream, resolved, name>>
      BY <1>6 DEF Reply, FillInv
    <3>. QED
      BY <3>1, <3>2 DEF AnswerInv
  <2>. QED
    BY <1>2, <1>6, <2>1 DEF Reply
<1>7. ASSUME UNCHANGED handlerVars PROVE AnswerInv'
  BY <1>7 DEF handlerVars, AnswerInv
<1>. QED
  BY <1>1, <1>3, <1>4, <1>5, <1>6, <1>7 DEF SubmitNext, Handle, submitVars, handlerVars

LEMMA AnswerInvariant == SubmitSpec => []AnswerInv
<1>1. SubmitInit => AnswerInv
  BY SubmitAssumption DEF SubmitInit, AnswerInv
<1>. QED
  BY <1>1, AnswerInvNext, FormInvariant, PTL DEF SubmitSpec

\* The blob of a row is the one of the handler whose row it is.
LEMMA RowReads ==
    ASSUME FormInv, NEW i \in Ids, NEW c \in Calls, RowIsOf(table[i], c)
    PROVE  ReadsAs(table[i].requestProto, Wires(resolved[c]))
<1>1. Wires(resolved[c]) \in Seq(Messages)
  BY WiresType DEF FormInv, SubmitTypeOK
<1>. QED
  BY <1>1, BlobReadsAsWritten DEF RowIsOf

\* A name is given to a client only once the row with it and the client's own
\* requests is in the table, and no row ever leaves it or changes.
THEOREM AcceptedJobsStayRecorded == SubmitSpec => []AcceptedJobsAreRecorded
<1>1. ASSUME FormInv, RecordInv, AnswerInv, NEW c \in Calls, answer[c] \in Names
      PROVE  /\ jobs[answer[c]] = Inlined(resolved[c])
             /\ Len(resolved[c]) = Len(stream[c])
             /\ \E i \in Ids :
                    /\ table[i] # NoRow
                    /\ table[i].reference = answer[c]
                    /\ ReadsAs(table[i].requestProto, Wires(resolved[c]))
  <2>1. name[c] = answer[c] /\ name[c] \in Names /\ Len(resolved[c]) = Len(stream[c])
    BY <1>1 DEF AnswerInv
  <2>2. PICK i \in Ids : table[i] # NoRow /\ table[i].reference = name[c]
    BY <1>1, <2>1 DEF RecordInv, HandlerInv, Recorded
  <2>3. PICK d \in Calls : RowIsOf(table[i], d)
    BY <1>1, <2>2 DEF RecordInv, RowInv
  <2>4. d = c
    BY <1>1, <2>1, <2>2, <2>3 DEF RowIsOf, RecordInv, HandlerInv
  <2>5. ReadsAs(table[i].requestProto, Wires(resolved[c]))
    BY <1>1, <2>3, <2>4, RowReads
  <2>. QED
    BY <1>1, <2>1, <2>2, <2>5 DEF RecordInv, HandlerInv
<1>2. FormInv /\ RecordInv /\ AnswerInv => AcceptedJobsAreRecorded
  BY <1>1 DEF AcceptedJobsAreRecorded
<1>. QED
  BY <1>2, FormInvariant, RecordInvariant, AnswerInvariant, PTL

\* Whatever fails, a row holds the requests the provider was given under its
\* reference, and is the only row with that reference.
THEOREM RowsStayFaithful == SubmitSpec => []RowsMatchProvider
<1>1. RecordInv => RowsMatchProvider
  BY DEF RecordInv, RowInv, RowIsOf, HandlerInv, RowsMatchProvider
<1>. QED
  BY <1>1, RecordInvariant, PTL

\* Every blob in the table can be read again, and gives the requests of the job
\* the row refers to, however many they are and whatever is in them.
THEOREM BlobsCanBeRead == SubmitSpec => []BlobsReadBack
<1>1. ASSUME FormInv, RecordInv, NEW i \in Ids, table[i] # NoRow
      PROVE  \E c \in Calls :
                /\ jobs[table[i].reference] = Inlined(resolved[c])
                /\ table[i].length = Len(resolved[c])
                /\ ReadsAs(table[i].requestProto, Wires(resolved[c]))
  <2>1. PICK c \in Calls : RowIsOf(table[i], c)
    BY <1>1 DEF RecordInv, RowInv
  <2>2. ReadsAs(table[i].requestProto, Wires(resolved[c]))
    BY <1>1, <2>1, RowReads
  <2>. QED
    BY <1>1, <2>1, <2>2 DEF RowIsOf, RecordInv, HandlerInv
<1>2. FormInv /\ RecordInv => BlobsReadBack
  BY <1>1 DEF BlobsReadBack
<1>. QED
  BY <1>2, FormInvariant, RecordInvariant, PTL
-----------------------------------------------------------------------------
\* The provider has one more job.
LEMMA JobTaken ==
    ASSUME FormInv, NEW c \in Calls, resolved[c] # <<>>,
           NEW n \in Names \ Created, jobs' = [jobs EXCEPT ![n] = Inlined(resolved[c])]
    PROVE  Created' = Created \cup {n}
<1>1. Inlined(resolved[c]) # <<>>
  BY InlinedType DEF FormInv, SubmitTypeOK
<1>2. jobs'[n] # <<>> /\ \A m \in Names \ {n} : jobs'[m] = jobs[m]
  BY <1>1 DEF FormInv, SubmitTypeOK
<1>. QED
  BY <1>2 DEF Created

\* f finds for each job at the provider the handler that had it created: a
\* handler of its own, which has told the table of the job, is about to, or has
\* failed its client.
Answers(f) ==
    /\ f \in [Created -> Calls]
    /\ \A n, m \in Created : f[n] = f[m] => n = m
    /\ \A n \in Created :
        /\ stage[f[n]] \in {"persist", "reply", "over"}
        /\ \/ Recorded(n)
           \/ stage[f[n]] = "persist" /\ name[f[n]] = n
           \/ answer[f[n]] = "error"

LossInv ==
    /\ \E f : Answers(f)
    /\ \A c \in Calls : answer[c] = "error" => stage[c] = "over"

\* No job is created, and handlers move on as they should.
LEMMA NoneLost ==
    ASSUME LossInv, Created' = Created,
           \A n : Recorded(n) => Recorded(n)',
           \A c \in Calls :
                /\ stage[c] \in {"persist", "reply", "over"} => stage'[c] \in {"persist", "reply", "over"}
                /\ stage[c] = "persist" =>
                    /\ name'[c] = name[c]
                    /\ stage'[c] = "persist" \/ answer'[c] = "error" \/ Recorded(name[c])'
                /\ answer[c] = "error" => answer'[c] = "error"
                /\ answer'[c] = "error" => stage'[c] = "over"
    PROVE  LossInv'
<1>1. PICK f : Answers(f)
  BY DEF LossInv
<1>2. Answers(f)'
  <2>1. f \in [Created' -> Calls]
    BY <1>1 DEF Answers
  <2>2. ASSUME NEW n \in Created
        PROVE  /\ stage'[f[n]] \in {"persist", "reply", "over"}
               /\ \/ Recorded(n)'
                  \/ stage'[f[n]] = "persist" /\ name'[f[n]] = n
                  \/ answer'[f[n]] = "error"
    <3>1. f[n] \in Calls
      BY <1>1 DEF Answers
    <3>2. CASE Recorded(n)
      BY <1>1, <3>1, <3>2 DEF Answers
    <3>3. CASE stage[f[n]] = "persist" /\ name[f[n]] = n
      BY <3>1, <3>3 DEF Recorded
    <3>4. CASE answer[f[n]] = "error"
      BY <1>1, <3>1, <3>4 DEF Answers
    <3>. QED
      BY <1>1, <3>2, <3>3, <3>4 DEF Answers
  <2>. QED
    BY <1>1, <2>1, <2>2 DEF Answers
<1>. QED
  BY <1>2 DEF LossInv

\* The provider takes one more job from handler c, which answers for it.
LEMMA OneMore ==
    ASSUME LossInv, FormInv, NEW c \in Calls, stage[c] = "submit", resolved[c] # <<>>,
           NEW n \in Names \ Created, jobs' = [jobs EXCEPT ![n] = Inlined(resolved[c])],
           \A d \in Calls \ {c} : stage'[d] = stage[d] /\ answer'[d] = answer[d] /\ name'[d] = name[d],
           \/ stage'[c] = "persist" /\ name'[c] = n /\ answer'[c] = answer[c]
           \/ stage'[c] = "over" /\ answer'[c] = "error",
           UNCHANGED table
    PROVE  LossInv'
<1>1. PICK f : Answers(f)
  BY DEF LossInv
<1>2. Created' = Created \cup {n}
  BY JobTaken
<1>. PICK g : g = [m \in Created \cup {n} |-> IF m = n THEN c ELSE f[m]]
  OBVIOUS
<1>3. \A m \in Created : f[m] \in Calls \ {c}
  BY <1>1 DEF Answers
<1>4. g[n] = c /\ \A m \in Created : g[m] = f[m]
  OBVIOUS
<1>5. g \in [Created' -> Calls]
  BY <1>2, <1>3
<1>6. ASSUME NEW m \in Created'
      PROVE  /\ stage'[g[m]] \in {"persist", "reply", "over"}
             /\ \/ Recorded(m)'
                \/ stage'[g[m]] = "persist" /\ name'[g[m]] = m
                \/ answer'[g[m]] = "error"
  <2>1. CASE m = n
    BY <1>4, <2>1
  <2>2. CASE m \in Created
    <3>1. g[m] = f[m] /\ f[m] \in Calls \ {c}
      BY <1>3, <1>4, <2>2
    <3>2. Recorded(m)' <=> Recorded(m)
      BY DEF Recorded
    <3>. QED
      BY <1>1, <2>2, <3>1, <3>2 DEF Answers
  <2>. QED
    BY <1>2, <2>1, <2>2
<1>7. \A m, k \in Created' : g[m] = g[k] => m = k
  BY <1>1, <1>2, <1>3, <1>4 DEF Answers
<1>8. Answers(g)'
  BY <1>5, <1>6, <1>7 DEF Answers
<1>9. \A d \in Calls : answer'[d] = "error" => stage'[d] = "over"
  BY DEF LossInv
<1>. QED
  BY <1>8, <1>9 DEF LossInv

LEMMA LossInvInit == SubmitInit => LossInv
<1>. SUFFICES ASSUME SubmitInit PROVE LossInv
  OBVIOUS
<1>1. Created = {}
  BY DEF SubmitInit, Created
<1>2. Answers([n \in {} |-> n])
  BY <1>1 DEF Answers
<1>. QED
  BY <1>2 DEF LossInv, SubmitInit

LEMMA LossInvNext == FormInv /\ RecordInv /\ LossInv /\ [SubmitNext]_submitVars => LossInv'
<1>. SUFFICES ASSUME FormInv, RecordInv, LossInv, [SubmitNext]_submitVars PROVE LossInv'
  OBVIOUS
<1>1. UNCHANGED jobs => Created' = Created
  BY DEF Created
<1>2. UNCHANGED table => \A n : Recorded(n) => Recorded(n)'
  BY DEF Recorded
<1>3. ASSUME NEW c \in Calls,
             \/ Receive(c) \/ ResolvePlain(c) \/ ResolveCached(c) \/ ResolveLookup(c)
      PROVE  LossInv'
  <2>1. /\ stage[c] \in {"recv", "resolve"}
        /\ \A d \in Calls \ {c} : stage'[d] = stage[d]
        /\ UNCHANGED <<table, jobs, name, answer>>
    BY <1>3 DEF Receive, ResolvePlain, ResolveCached, ResolveLookup, Resolved, FormInv, SubmitTypeOK
  <2>2. answer[c] # "error"
    BY <2>1 DEF LossInv
  <2>. QED
    BY <1>1, <1>2, <2>1, <2>2, NoneLost DEF LossInv
<1>4. ASSUME NEW c \in Calls, Answered(c, "error"), UNCHANGED <<jobs, name>>,
             \A n : Recorded(n) => Recorded(n)'
      PROVE  LossInv'
  <2>1. stage'[c] = "over" /\ answer'[c] = "error"
    BY <1>4 DEF Answered, FormInv, SubmitTypeOK
  <2>2. \A d \in Calls \ {c} : stage'[d] = stage[d] /\ answer'[d] = answer[d]
    BY <1>4 DEF Answered, FormInv, SubmitTypeOK
  <2>. QED
    BY <1>1, <1>4, <2>1, <2>2, NoneLost DEF LossInv
<1>5. ASSUME NEW c \in Calls,
             TemplateNotFound(c) \/ ReceiveOrLookupError(c) \/ SubmitRefused(c) \/ Crash(c)
      PROVE  LossInv'
  BY <1>2, <1>4, <1>5 DEF TemplateNotFound, ReceiveOrLookupError, SubmitRefused, Crash
<1>6. ASSUME NEW c \in Calls, SubmitBatchJob(c) PROVE LossInv'
  <2>1. PICK n \in Names \ Created :
          jobs' = [jobs EXCEPT ![n] = Inlined(resolved[c])] /\ name' = [name EXCEPT ![c] = n]
    BY <1>6 DEF SubmitBatchJob
  <2>2. stage[c] = "submit" /\ resolved[c] # <<>> /\ UNCHANGED <<table, answer>>
    BY <1>6 DEF SubmitBatchJob, Refused
  <2>3. stage'[c] = "persist" /\ name'[c] = n
    BY <1>6, <2>1 DEF SubmitBatchJob, FormInv, SubmitTypeOK
  <2>4. \A d \in Calls \ {c} : stage'[d] = stage[d] /\ answer'[d] = answer[d] /\ name'[d] = name[d]
    BY <1>6, <2>1 DEF SubmitBatchJob, FormInv, SubmitTypeOK
  <2>. QED
    BY <2>1, <2>2, <2>3, <2>4, OneMore
<1>7. ASSUME NEW c \in Calls, SubmitError(c) PROVE LossInv'
  <2>1. /\ stage[c] = "submit" /\ resolved[c] # <<>>
        /\ Answered(c, "error")
        /\ UNCHANGED <<table, name>>
    BY <1>7 DEF SubmitError, Refused
  <2>2. stage'[c] = "over" /\ answer'[c] = "error"
    BY <2>1 DEF Answered, FormInv, SubmitTypeOK
  <2>3. \A d \in Calls \ {c} : stage'[d] = stage[d] /\ answer'[d] = answer[d] /\ name'[d] = name[d]
    BY <2>1 DEF Answered, FormInv, SubmitTypeOK
  <2>4. CASE UNCHANGED jobs
    BY <1>2, <1>4, <2>1, <2>4
  <2>5. CASE \E n \in Names \ Created : jobs' = [jobs EXCEPT ![n] = Inlined(resolved[c])]
    BY <2>1, <2>2, <2>3, <2>5, OneMore
  <2>. QED
    BY <1>7, <2>4, <2>5 DEF SubmitError
<1>8. ASSUME NEW c \in Calls, stage[c] = "persist", NEW i \in Ids, Inserted(c, i), UNCHANGED name
      PROVE  Recorded(name[c])' /\ \A n : Recorded(n) => Recorded(n)'
  <2>1. RowOf(c) # NoRow /\ RowOf(c).reference = name[c]
    <3>1. name[c] \in Names
      BY <1>8 DEF FormInv, FillInv
    <3>2. RowOf(c) \in JobRow
      BY <3>1, RowOfType
    <3>. QED
      BY <3>2, SubmitAssumption DEF JobRow, RowOf
  <2>2. table[i] = NoRow /\ table'[i] = RowOf(c) /\ \A k \in Ids \ {i} : table'[k] = table[k]
    BY <1>8 DEF Inserted, FormInv, SubmitTypeOK
  <2>. HIDE DEF RowOf
  <2>3. Recorded(name[c])'
    BY <1>8, <2>1, <2>2 DEF Recorded
  <2>4. ASSUME NEW n, Recorded(n) PROVE Recorded(n)'
    <3>1. PICK k \in Ids : table[k] # NoRow /\ table[k].reference = n
      BY <2>4 DEF Recorded
    <3>. QED
      BY <2>2, <3>1 DEF Recorded
  <2>. QED
    BY <2>3, <2>4
<1>9. ASSUME NEW c \in Calls, Persist(c) PROVE LossInv'
  <2>1. stage[c] = "persist" /\ UNCHANGED <<jobs, name>>
    BY <1>9 DEF Persist
  <2>2. ASSUME NEW i \in Ids, Inserted(c, i), stage' = [stage EXCEPT ![c] = "reply"], UNCHANGED answer
        PROVE  LossInv'
    <3>1. stage'[c] = "reply" /\ \A d \in Calls \ {c} : stage'[d] = stage[d]
      BY <2>2 DEF FormInv, SubmitTypeOK
    <3>2. Recorded(name[c])' /\ \A n : Recorded(n) => Recorded(n)'
      BY <1>8, <2>1, <2>2
    <3>3. answer[c] # "error"
      BY <2>1 DEF LossInv
    <3>. QED
      BY <1>1, <2>1, <2>2, <3>1, <3>2, <3>3, NoneLost DEF LossInv
  <2>3. ASSUME UNCHANGED table, Answered(c, "error") PROVE LossInv'
    BY <1>2, <1>4, <2>1, <2>3
  <2>. QED
    BY <1>9, <2>2, <2>3 DEF Persist
<1>10. ASSUME NEW c \in Calls, PersistError(c) PROVE LossInv'
  <2>1. stage[c] = "persist" /\ Answered(c, "error") /\ UNCHANGED <<jobs, name>>
    BY <1>10 DEF PersistError
  <2>2. \A n : Recorded(n) => Recorded(n)'
    BY <1>2, <1>8, <1>10, <2>1 DEF PersistError
  <2>. QED
    BY <1>4, <2>1, <2>2
<1>11. ASSUME NEW c \in Calls, Reply(c) PROVE LossInv'
  <2>1. stage[c] = "reply" /\ UNCHANGED <<table, jobs, name>>
    BY <1>11 DEF Reply
  <2>2. CASE Answered(c, "error")
    BY <1>2, <1>4, <2>1, <2>2
  <2>3. CASE Answered(c, name[c])
    <3>1. stage'[c] = "over" /\ answer'[c] = name[c] /\ name[c] # "error"
      BY <2>1, <2>3, SubmitAssumption DEF Answered, FormInv, SubmitTypeOK, FillInv
    <3>2. \A d \in Calls \ {c} : stage'[d] = stage[d] /\ answer'[d] = answer[d]
      BY <2>3 DEF Answered, FormInv, SubmitTypeOK
    <3>3. answer[c] # "error"
      BY <2>1 DEF LossInv
    <3>. QED
      BY <1>1, <1>2, <2>1, <3>1, <3>2, <3>3, NoneLost DEF LossInv
  <2>. QED
    BY <1>11, <2>2, <2>3 DEF Reply
<1>12. ASSUME UNCHANGED <<table, jobs, handlerVars>> PROVE LossInv'
  BY <1>1, <1>2, <1>12, NoneLost DEF handlerVars, LossInv
<1>. QED
  BY <1>3, <1>5, <1>6, <1>7, <1>9, <1>10, <1>11, <1>12
     DEF SubmitNext, Handle, submitVars, handlerVars

\* Every lost job has a handler of its own that failed its client: as many
\* clients at least were told as jobs are lost.
THEOREM NoSilentLoss == SubmitSpec => []LossesAreReported
<1>1. ASSUME LossInv PROVE LossesAreReported
  <2>. DEFINE Failed == {c \in Calls : answer[c] = "error"}
  <2>1. PICK f : Answers(f)
    BY <1>1 DEF LossInv
  <2>2. Orphans \subseteq Created /\ \A n \in Orphans : f[n] \in Failed
    BY <2>1 DEF Orphans, Answers, Recorded
  <2>. DEFINE g == [n \in Orphans |-> f[n]]
  <2>3. g \in Injection(Orphans, Failed)
    BY <2>1, <2>2 DEF Answers, Injection, IsInjective
  <2>4. IsFiniteSet(Failed)
    BY SubmitAssumption, FS_Subset
  <2>. QED
    BY <2>3, <2>4, FS_Injection DEF LossesAreReported
<1>2. SubmitSpec => []LossInv
  BY LossInvInit, LossInvNext, FormInvariant, RecordInvariant, PTL DEF SubmitSpec
<1>. QED
  BY <1>1, <1>2, PTL
-----------------------------------------------------------------------------
\* The jobs on record, to BatchService.
RecordedJobs == {n \in Names : Recorded(n)}

\* One more job is on record, which the provider has.
LEMMA JobRecorded ==
    ASSUME FormInv, RecordInv, NEW c \in Calls, stage[c] = "persist", NEW i \in Ids, Inserted(c, i)
    PROVE  /\ name[c] \in Created \ RecordedJobs
           /\ RecordedJobs' = RecordedJobs \cup {name[c]}
<1>1. name[c] \in Names /\ ~Recorded(name[c]) /\ name[c] \in Created
  BY RowsAreOfJobs DEF FormInv, FillInv, RecordInv, HandlerInv
<1>2. RowOf(c) # NoRow /\ RowOf(c).reference = name[c]
  <2>1. RowOf(c) \in JobRow
    BY <1>1, RowOfType
  <2>. QED
    BY <2>1, SubmitAssumption DEF JobRow, RowOf
<1>3. table[i] = NoRow /\ table'[i] = RowOf(c) /\ \A k \in Ids \ {i} : table'[k] = table[k]
  BY DEF Inserted, FormInv, SubmitTypeOK
<1>4. ASSUME NEW n \in Names PROVE Recorded(n)' <=> (Recorded(n) \/ n = name[c])
  <2>. HIDE DEF RowOf
  <2>. QED
    BY <1>2, <1>3 DEF Recorded
<1>. QED
  BY <1>1, <1>4 DEF RecordedJobs

\* A client is told of an error, whatever has become of its job in that step.
LEMMA FailsToService ==
    ASSUME FormInv, AnswerInv, NEW c \in Calls, stage[c] # "over", Answered(c, "error"),
           \/ UNCHANGED <<Created, RecordedJobs>>
           \/ \E n \in Names \ Created : Created' = Created \cup {n} /\ UNCHANGED RecordedJobs
           \/ \E n \in Created \ RecordedJobs :
                RecordedJobs' = RecordedJobs \cup {n} /\ UNCHANGED Created
    PROVE  Service!Next
<1>1. Service!Fail(c)
  BY DEF Service!Fail, Answered, AnswerInv, RecordedJobs
<1>. QED
  BY <1>1 DEF Service!Next

LEMMA ServiceNext ==
    ASSUME FormInv, RecordInv, AnswerInv, [SubmitNext]_submitVars
    PROVE  [Service!Next]_(Service!vars)
<1>1. UNCHANGED jobs => UNCHANGED Created
  BY DEF Created
<1>2. UNCHANGED table => UNCHANGED RecordedJobs
  BY DEF RecordedJobs, Recorded
<1>3. ASSUME UNCHANGED <<table, jobs, answer>> PROVE [Service!Next]_(Service!vars)
  BY <1>1, <1>2, <1>3 DEF Service!vars, RecordedJobs
<1>4. ASSUME NEW c \in Calls, stage[c] # "over", Answered(c, "error"), UNCHANGED <<table, jobs>>
      PROVE  [Service!Next]_(Service!vars)
  BY <1>1, <1>2, <1>4, FailsToService
<1>5. ASSUME NEW c \in Calls, Receive(c) \/ ResolvePlain(c) \/ ResolveCached(c) \/ ResolveLookup(c)
      PROVE  [Service!Next]_(Service!vars)
  BY <1>3, <1>5 DEF Receive, ResolvePlain, ResolveCached, ResolveLookup
<1>6. ASSUME NEW c \in Calls,
             TemplateNotFound(c) \/ ReceiveOrLookupError(c) \/ SubmitRefused(c) \/ Crash(c)
      PROVE  [Service!Next]_(Service!vars)
  BY <1>4, <1>6 DEF TemplateNotFound, ReceiveOrLookupError, SubmitRefused, Crash
<1>7. ASSUME NEW c \in Calls, SubmitBatchJob(c) PROVE [Service!Next]_(Service!vars)
  <2>1. resolved[c] # <<>> /\ UNCHANGED <<table, answer>>
    BY <1>7 DEF SubmitBatchJob, Refused
  <2>2. PICK n \in Names \ Created : jobs' = [jobs EXCEPT ![n] = Inlined(resolved[c])]
    BY <1>7 DEF SubmitBatchJob
  <2>3. Service!Take(n)
    BY <1>2, <2>1, <2>2, JobTaken DEF Service!Take, RecordedJobs
  <2>. QED
    BY <2>3 DEF Service!Next
<1>8. ASSUME NEW c \in Calls, SubmitError(c) PROVE [Service!Next]_(Service!vars)
  <2>1. stage[c] # "over" /\ resolved[c] # <<>> /\ Answered(c, "error") /\ UNCHANGED table
    BY <1>8 DEF SubmitError, Refused
  <2>2. CASE UNCHANGED jobs
    BY <1>4, <2>1, <2>2
  <2>3. ASSUME NEW n \in Names \ Created, jobs' = [jobs EXCEPT ![n] = Inlined(resolved[c])]
        PROVE  Service!Next
    BY <1>2, <2>1, <2>3, JobTaken, FailsToService
  <2>. QED
    BY <1>8, <2>2, <2>3 DEF SubmitError
<1>9. ASSUME NEW c \in Calls, stage[c] = "persist", NEW i \in Ids, Inserted(c, i), UNCHANGED <<jobs, name>>
      PROVE  /\ UNCHANGED answer => Service!Next
             /\ Answered(c, "error") => Service!Next
  <2>1. /\ name[c] \in Created \ RecordedJobs
        /\ RecordedJobs' = RecordedJobs \cup {name[c]}
        /\ UNCHANGED Created
    BY <1>1, <1>9, JobRecorded
  <2>2. ASSUME UNCHANGED answer PROVE Service!Next
    <3>1. Service!Record(name[c]) /\ name[c] \in Names
      BY <2>1, <2>2 DEF Service!Record, RecordedJobs, Created
    <3>. QED
      BY <3>1 DEF Service!Next
  <2>. QED
    BY <1>9, <2>1, <2>2, FailsToService
<1>10. ASSUME NEW c \in Calls, Persist(c) \/ PersistError(c) PROVE [Service!Next]_(Service!vars)
  <2>1. stage[c] = "persist" /\ UNCHANGED <<jobs, name>>
    BY <1>10 DEF Persist, PersistError
  <2>. QED
    BY <1>4, <1>9, <1>10, <2>1 DEF Persist, PersistError
<1>11. ASSUME NEW c \in Calls, Reply(c) PROVE [Service!Next]_(Service!vars)
  <2>1. stage[c] = "reply" /\ UNCHANGED <<table, jobs>>
    BY <1>11 DEF Reply
  <2>2. ASSUME Answered(c, name[c]) PROVE Service!Next
    <3>1. name[c] \in RecordedJobs
      BY <2>1 DEF FormInv, FillInv, RecordInv, HandlerInv, RecordedJobs
    <3>2. answer[c] = "none" /\ \A d \in Calls : answer[d] # name[c]
      <4>1. answer[c] = "none" /\ name[c] # "none"
        BY <2>1, <3>1, SubmitAssumption DEF AnswerInv, RecordedJobs
      <4>2. \A d \in Calls \ {c} : answer[d] \in Names => answer[d] = name[d]
        BY DEF AnswerInv
      <4>. QED
        BY <3>1, <4>1, <4>2 DEF RecordInv, HandlerInv, RecordedJobs
    <3>3. Service!Tell(c, name[c]) /\ name[c] \in Names
      BY <1>1, <1>2, <2>1, <2>2, <3>1, <3>2 DEF Service!Tell, Answered, RecordedJobs
    <3>. QED
      BY <3>3 DEF Service!Next
  <2>. QED
    BY <1>4, <1>11, <2>1, <2>2 DEF Reply
<1>. QED
  BY <1>3, <1>5, <1>6, <1>7, <1>8, <1>10, <1>11 DEF SubmitNext, Handle, submitVars, handlerVars

\* To the clients, any number of handlers that overlap, fail and die anywhere
\* are BatchService: what a client is told is on record first, and it is told
\* to that client only.
THEOREM ImplementsService == SubmitSpec => ServiceSpec
<1>1. SubmitInit => Service!Init
  <2>. SUFFICES ASSUME SubmitInit PROVE Service!Init
    OBVIOUS
  <2>1. Created = {} /\ \A n \in Names : ~Recorded(n)
    BY DEF SubmitInit, Created, Recorded
  <2>. QED
    BY <2>1 DEF SubmitInit, Service!Init
<1>. QED
  BY <1>1, ServiceNext, FormInvariant, RecordInvariant, AnswerInvariant, PTL
     DEF SubmitSpec, ServiceSpec, Service!Spec
=============================================================================
