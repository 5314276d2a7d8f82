---------------------------- MODULE BatchJobSubmit ----------------------------
(***************************************************************************)
(* The RPC SubmitBulkChatCompletions, from the first message of the client *)
(* stream to the answer: Server.SubmitBulkChatCompletions, the usecase it  *)
(* calls, and the provider's SubmitBatchJob.                               *)
(*                                                                         *)
(* Handlers run concurrently with one another and with the RPCs that       *)
(* change prompt configs.  A handler reads each template it meets once,    *)
(* then has the provider create the job, and only then inserts the row the *)
(* scheduler works from; nothing ties the two together, so what fails or   *)
(* dies in between leaves a job at the provider that nobody polls.         *)
(*                                                                         *)
(* A client that goes away cancels the context of the handler's calls: to  *)
(* the handler that is a call that fails, before or after it took effect.  *)
(***************************************************************************)
EXTENDS PromptConfigs, RequestCodec, FiniteSets

CONSTANTS
    Calls,       \* RPCs in progress or over
    Streams,     \* the streams of requests clients may send
    NoTemplate,  \* an empty template_id
    BadSchema,   \* a json_schema_response that does not parse
    Names,       \* names the provider gives to jobs
    NoName,
    Ids,         \* ids newBatchJobID may draw in one second
    NoRow,
    Wire(_),     \* the bytes proto.Marshal makes of a request
    Failures     \* the calls that may fail here, "collision" and "crash"

Request == [template : Templates \cup {NoTemplate}, fields : FieldValues]

\* InlinedRequest: the fields that are set.
InlinedRequests == UNION {[S -> Values] : S \in SUBSET Fields}

ASSUME SubmitAssumption ==
    /\ IsFiniteSet(Calls)
    /\ NoTemplate \notin Templates
    /\ BadSchema \in Values
    /\ Streams \subseteq Seq(Request)
    /\ NoName \notin Names
    /\ Names \cap {"none", "error"} = {}
    /\ NoRow \notin [reference : Names, requestProto : Seq(Byte), length : Nat]
    /\ \A r \in Request : Wire(r) \in Messages
    /\ Failures \subseteq {"crash", "recv", "lookup", "submit", "persist", "reply", "collision"}

VARIABLES
    table,     \* batch_jobs: the columns a submission writes, by id
    jobs,      \* what the provider was asked to run, by the name it gave the job;
               \* the first request's model is also the job's
    stage,     \* where each handler is
    stream,    \* the requests received
    cache,     \* the configs a handler has looked up: its map promptConfigs
    resolved,  \* the requests it has filled in so far
    name,      \* the name of the job the provider created for it
    answer     \* what the client was told: a name, or "error"

handlerVars == <<stage, stream, cache, resolved, name, answer>>
submitVars == <<configs, table, jobs, stage, stream, cache, resolved, name, answer>>

\* models.BatchJob: reference_id, request_proto and length_data.
JobRow == [reference : Names, requestProto : Seq(Byte), length : Nat]

\* The names of jobs the provider has.
Created == {n \in Names : jobs[n] # <<>>}

SubmitInit ==
    /\ PromptInit
    /\ table = [i \in Ids |-> NoRow]
    /\ jobs = [n \in Names |-> <<>>]
    /\ stage = [c \in Calls |-> "recv"]
    /\ stream = [c \in Calls |-> <<>>]
    /\ cache = [c \in Calls |-> [t \in Templates |-> NoConfig]]
    /\ resolved = [c \in Calls |-> <<>>]
    /\ name = [c \in Calls |-> NoName]
    /\ answer = [c \in Calls |-> "none"]

\* Handler c is over; its client is told a.
Answered(c, a) ==
    /\ stage' = [stage EXCEPT ![c] = "over"]
    /\ answer' = [answer EXCEPT ![c] = a]

\* recvSubmitBulkChatCompletionsRequests: all messages up to the end of the
\* stream.  A stream without any gets as far as the provider adapter.
Receive(c) ==
    /\ stage[c] = "recv"
    /\ \E s \in Streams :
        /\ stream' = [stream EXCEPT ![c] = s]
        /\ stage' = [stage EXCEPT ![c] = IF s = <<>> THEN "submit" ELSE "resolve"]
    /\ UNCHANGED <<configs, table, jobs, cache, resolved, name, answer>>

\* The request resolveSubmitRequests is at.
CurrentRequest(c) == stream[c][Len(resolved[c]) + 1]

\* That request is filled in as r; after the last one the provider is next.
Resolved(c, r) ==
    /\ resolved' = [resolved EXCEPT ![c] = Append(@, r)]
    /\ stage' = [stage EXCEPT ![c] = IF Len(resolved[c]) + 1 = Len(stream[c]) THEN "submit" ELSE "resolve"]

\* applyPromptConfigDefaults.
FilledIn(q, cfg) == [q EXCEPT !.fields = WithDefaults(@, cfg)]

\* A request without a template is taken as it is.
ResolvePlain(c) ==
    /\ stage[c] = "resolve"
    /\ CurrentRequest(c).template = NoTemplate
    /\ Resolved(c, CurrentRequest(c))
    /\ UNCHANGED <<configs, table, jobs, stream, cache, name, answer>>

\* A template met before is taken from the handler's map.
ResolveCached(c) ==
    /\ stage[c] = "resolve"
    /\ LET q == CurrentRequest(c) IN
        /\ q.template \in Templates
        /\ cache[c][q.template] # NoConfig
        /\ Resolved(c, FilledIn(q, cache[c][q.template]))
    /\ UNCHANGED <<configs, table, jobs, stream, cache, name, answer>>

\* GetPromptConfig finds the template.
ResolveLookup_NotKept(c) ==
    /\ stage[c] = "resolve"
    /\ LET q == CurrentRequest(c) IN
        /\ q.template \in Templates
        /\ configs[q.template] # NoConfig
        /\ Resolved(c, FilledIn(q, configs[q.template]))
    /\ UNCHANGED <<configs, table, jobs, stream, cache, name, answer>>
ResolveLookup(c) ==
    /\ stage[c] = "resolve"
    /\ LET q == CurrentRequest(c) IN
        /\ q.template \in Templates
        /\ cache[c][q.template] = NoConfig
        /\ configs[q.template] # NoConfig
        /\ cache' = [cache EXCEPT ![c][q.template] = configs[q.template]]
        /\ Resolved(c, FilledIn(q, configs[q.template]))
    /\ UNCHANGED <<configs, table, jobs, stream, name, answer>>

\* GetPromptConfig does not find it: the whole submission fails with NotFound.
TemplateNotFound(c) ==
    /\ stage[c] = "resolve"
    /\ LET q == CurrentRequest(c) IN
        /\ q.template \in Templates
        /\ cache[c][q.template] = NoConfig
        /\ configs[q.template] = NoConfig
    /\ Answered(c, "error")
    /\ UNCHANGED <<configs, table, jobs, stream, cache, resolved, name>>

\* The stream or a lookup fails.
ReceiveOrLookupError(c) ==
    /\ \/ stage[c] = "recv" /\ "recv" \in Failures
       \/ stage[c] = "resolve" /\ CurrentRequest(c).template \in Templates /\ "lookup" \in Failures
    /\ Answered(c, "error")
    /\ UNCHANGED <<configs, table, jobs, stream, cache, resolved, name>>

\* What SubmitBatchJob refuses before it calls the provider.
Refused(c) ==
    \/ resolved[c] = <<>>
    \/ \E i \in DOMAIN resolved[c] : resolved[c][i].fields["schema"] = BadSchema

SubmitRefused(c) ==
    /\ stage[c] = "submit"
    /\ Refused(c)
    /\ Answered(c, "error")
    /\ UNCHANGED <<configs, table, jobs, stream, cache, resolved, name>>

\* The requests as the provider is given them: a field that is "", 0 or nil is
\* left out, and so is the template.
SetFields(q) == {f \in Fields : q.fields[f] # Unset}
Inlined(reqs) ==
    [i \in DOMAIN reqs |-> [f \in SetFields(reqs[i]) |-> reqs[i].fields[f]]]

\* Batches.Create: the provider takes the job and names it.
SubmitBatchJob(c) ==
    /\ stage[c] = "submit"
    /\ ~Refused(c)
    /\ \E n \in Names \ Created :
        /\ jobs' = [jobs EXCEPT ![n] = Inlined(resolved[c])]
        /\ name' = [name EXCEPT ![c] = n]
    /\ stage' = [stage EXCEPT ![c] = "persist"]
    /\ UNCHANGED <<configs, table, stream, cache, resolved, answer>>

\* It fails, or the provider took the job and its answer is lost.
SubmitError_Ignored(c) ==
    /\ "submit" \in Failures
    /\ stage[c] = "submit"
    /\ ~Refused(c)
    /\ stage' = [stage EXCEPT ![c] = "persist"]
    /\ UNCHANGED <<configs, table, jobs, stream, cache, resolved, name, answer>>
SubmitError(c) ==
    /\ "submit" \in Failures
    /\ stage[c] = "submit"
    /\ ~Refused(c)
    /\ \/ UNCHANGED jobs
       \/ \E n \in Names \ Created : jobs' = [jobs EXCEPT ![n] = Inlined(resolved[c])]
    /\ Answered(c, "error")
    /\ UNCHANGED <<configs, table, stream, cache, resolved, name>>

\* The requests as messages.
Wires(reqs) == [i \in DOMAIN reqs |-> Wire(reqs[i])]

\* The row handler c inserts.
RowOf_Unresolved(c) ==
    [reference |-> name[c], requestProto |-> Marshal(Wires(stream[c])), length |-> Len(stream[c])]
RowOf(c) ==
    [reference |-> name[c], requestProto |-> Marshal(Wires(resolved[c])), length |-> Len(stream[c])]

\* CreateBatchJob commits the row of handler c under i, an id BeforeCreate drew.
Inserted(c, i) ==
    /\ table[i] = NoRow
    /\ table' = [table EXCEPT ![i] = RowOf(c)]

\* The row is inserted, or its id is taken and the primary key refuses it.
Persist_IgnoresError(c) ==
    /\ stage[c] = "persist"
    /\ \E i \in Ids :
        /\ table[i] = NoRow \/ "collision" \in Failures
        /\ table' = IF table[i] = NoRow THEN [table EXCEPT ![i] = RowOf(c)] ELSE table
    /\ stage' = [stage EXCEPT ![c] = "reply"]
    /\ UNCHANGED answer
    /\ UNCHANGED <<configs, jobs, stream, cache, resolved, name>>
Persist(c) ==
    /\ stage[c] = "persist"
    /\ \E i \in Ids :
        \/ /\ Inserted(c, i)
           /\ stage' = [stage EXCEPT ![c] = "reply"]
           /\ UNCHANGED answer
        \/ /\ table[i] # NoRow
           /\ "collision" \in Failures
           /\ UNCHANGED table
           /\ Answered(c, "error")
    /\ UNCHANGED <<configs, jobs, stream, cache, resolved, name>>

\* The insert fails, or it is committed and the confirmation is lost.
PersistError_Retries(c) ==
    /\ "persist" \in Failures
    /\ stage[c] = "persist"
    /\ \E i \in Ids : Inserted(c, i)
    /\ UNCHANGED <<stage, answer>>
    /\ UNCHANGED <<configs, jobs, stream, cache, resolved, name>>
PersistError_Ignored(c) ==
    /\ "persist" \in Failures
    /\ stage[c] = "persist"
    /\ stage' = [stage EXCEPT ![c] = "reply"]
    /\ UNCHANGED <<configs, table, jobs, stream, cache, resolved, name, answer>>
PersistError(c) ==
    /\ "persist" \in Failures
    /\ stage[c] = "persist"
    /\ \/ UNCHANGED table
       \/ \E i \in Ids : Inserted(c, i)
    /\ Answered(c, "error")
    /\ UNCHANGED <<configs, jobs, stream, cache, resolved, name>>

\* SendAndClose: the client learns the provider's name of the job, or nothing.
Reply(c) ==
    /\ stage[c] = "reply"
    /\ \/ Answered(c, name[c])
       \/ "reply" \in Failures /\ Answered(c, "error")
    /\ UNCHANGED <<configs, table, jobs, stream, cache, resolved, name>>

\* The API process dies under the handler.  (One way to kill it is to call
\* GetJobStatus or GetJobResults, which panic.)  Handlers share no memory, so
\* the death of many is the death of one after the other.
Crash(c) ==
    /\ "crash" \in Failures
    /\ stage[c] # "over"
    /\ Answered(c, "error")
    /\ UNCHANGED <<configs, table, jobs, stream, cache, resolved, name>>

Handle(c) ==
    \/ Receive(c) \/ ReceiveOrLookupError(c)
    \/ ResolvePlain(c) \/ ResolveCached(c) \/ ResolveLookup(c) \/ TemplateNotFound(c)
    \/ SubmitRefused(c) \/ SubmitBatchJob(c) \/ SubmitError(c)
    \/ Persist(c) \/ PersistError(c) \/ Reply(c) \/ Crash(c)

SubmitNext ==
    \/ \E c \in Calls : Handle(c)
    \/ PromptNext /\ UNCHANGED <<table, jobs, handlerVars>>

SubmitSpec == SubmitInit /\ [][SubmitNext]_submitVars

-----------------------------------------------------------------------------
\* Every variable holds a value of its kind.
SubmitTypeOK ==
    /\ configs \in [Templates -> Config \cup {NoConfig}]
    /\ table \in [Ids -> JobRow \cup {NoRow}]
    /\ jobs \in [Names -> Seq(InlinedRequests)]
    /\ stage \in [Calls -> {"recv", "resolve", "submit", "persist", "reply", "over"}]
    /\ stream \in [Calls -> Seq(Request)]
    /\ cache \in [Calls -> [Templates -> Config \cup {NoConfig}]]
    /\ resolved \in [Calls -> Seq(Request)]
    /\ name \in [Calls -> Names \cup {NoName}]
    /\ answer \in [Calls -> Names \cup {"none", "error"}]

\* A row points the scheduler at job n.
Recorded(n) == \E i \in Ids : table[i] # NoRow /\ table[i].reference = n

\* A client that is given a job's name can count on it: the provider runs the
\* requests that this client sent, templates filled in, and they are in the
\* table the scheduler works from, under that name, to be read back.
AcceptedJobsAreRecorded ==
    \A c \in Calls :
        answer[c] \in Names =>
            /\ jobs[answer[c]] = Inlined(resolved[c])
            /\ Len(resolved[c]) = Len(stream[c])
            /\ \E i \in Ids :
                /\ table[i] # NoRow
                /\ table[i].reference = answer[c]
                /\ ReadsAs(table[i].requestProto, Wires(resolved[c]))

\* What is kept of a job is what the provider runs, templates filled in: both
\* come from the requests of one handler, and their number is right, which the
\* blob itself does not tell.  No job has two rows, which would be polled and
\* billed twice.
RowsMatchProvider ==
    \A i \in Ids :
        table[i] # NoRow =>
            /\ \E c \in Calls :
                /\ table[i].requestProto = Marshal(Wires(resolved[c]))
                /\ table[i].length = Len(resolved[c])
                /\ jobs[table[i].reference] = Inlined(resolved[c])
            /\ \A k \in Ids \ {i} : table[k] # NoRow => table[k].reference # table[i].reference

\* A stored blob is "length-delimited": read entry by entry, it gives every
\* request of the job the row refers to, and ends with the last one.
BlobsReadBack ==
    \A i \in Ids :
        table[i] # NoRow =>
            \E c \in Calls :
                /\ jobs[table[i].reference] = Inlined(resolved[c])
                /\ table[i].length = Len(resolved[c])
                /\ ReadsAs(table[i].requestProto, Wires(resolved[c]))

\* All requests of one submission that use a template get the same version of
\* it, however often it is replaced or deleted while they are filled in; and
\* what a request has of its own is never replaced.
OneVersionPerTemplate ==
    \A c \in Calls : \A i, k \in DOMAIN resolved[c] : \A f \in Fields :
        /\ stream[c][i].fields[f] # Unset => resolved[c][i].fields[f] = stream[c][i].fields[f]
        /\ (/\ stream[c][i].template = stream[c][k].template
            /\ stream[c][i].fields[f] = Unset
            /\ stream[c][k].fields[f] = Unset) => resolved[c][i].fields[f] = resolved[c][k].fields[f]

\* UpsertPromptConfig "fully replaces" a config: what a handler has looked up
\* is one upsert's content, never a mixture of two, as ListPromptConfigs shows
\* it; and a request is filled in with just that, an unset field of the
\* template staying unset.
FilledAsUpserted ==
    \A c \in Calls, t \in Templates :
        cache[c][t] # NoConfig =>
            \E sent \in Contents :
                /\ Shown(cache[c][t]) = sent
                /\ \A i \in DOMAIN resolved[c], f \in Fields :
                    /\ stream[c][i].template = t
                    /\ stream[c][i].fields[f] = Unset
                    => resolved[c][i].fields[f] = sent[f]

\* Jobs the provider runs and no row tells the scheduler of.
Orphans ==
    {n \in Created :
        /\ ~Recorded(n)
        /\ \A c \in Calls : stage[c] = "persist" => name[c] # n}

\* No job is lost in silence: for every job at the provider that no row will
\* ever point to, some client was told that its submission failed.
LossesAreReported ==
    Cardinality(Orphans) <= Cardinality({c \in Calls : answer[c] = "error"})

\* To clients, however handlers overlap, fail and die, submissions are
\* BatchService: a name is given to one client, and once its job is on record.
Service == INSTANCE BatchService WITH
    taken <- Created,
    recorded <- {n \in Names : Recorded(n)},
    told <- answer

ServiceSpec == Service!Spec
=============================================================================
