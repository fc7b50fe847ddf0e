----------------------------- MODULE TableData -----------------------------
(***************************************************************************)
(* The hook useTableData of the demo page (hooks/useTableData.ts): it asks *)
(* the node which primitives it follows, loads their schemas, then their   *)
(* rows, and hands its component functions that load them again.  Requests *)
(* run side by side and each may fail or find nothing (404).  The node may *)
(* answer anything at any time; the component is whatever calls the hook.  *)
(***************************************************************************)
CONSTANTS
    Primitives,     \* what /config may list
    L2,             \* those of the type evm-rpc-effectstream-l2
    Refreshes,      \* bound: calls of refreshPrimitiveData under way at once
    Null

ASSUME HookAssumption == L2 \subseteq Primitives

VARIABLES
    primitiveNames, primitiveSchemas, primitiveData, scheduledData,
    isInitialLoadComplete,
    unavailableSchemas, unavailableData,    \* the two caches of 404s
    strict,                                 \* a development build
    init, initScheduled,                    \* initialize's two halves, per run
    refresh, refreshScheduled               \* the functions the hook returns

state == <<primitiveNames, primitiveSchemas, primitiveData, scheduledData>>
caches == <<unavailableSchemas, unavailableData>>
loads == <<strict, init, initScheduled>>
reloads == <<refresh, refreshScheduled>>
hookVars == <<state, isInitialLoadComplete, caches, loads, reloads>>

\* main.tsx wraps the page in StrictMode, which in a development build runs
\* every effect twice, on the same state and refs: two loads side by side.
Runs == {"first", "second"}

Schemas == {Null, "empty", "columns"}
Table == [rows : BOOLEAN, fields : {"none", "row", "schema"}]

\* The columns of a table: the schema's, or else the keys of the first row.
convertPrimitiveDataToTableFormat(rows, schema) ==
    [rows |-> rows,
     fields |-> IF schema = "columns" THEN "schema" ELSE IF rows THEN "row" ELSE "none"]

\* Promise.all over some of the primitives named: those not answered yet, and
\* what each is asked with and answered.
NothingYet == [p \in Primitives |-> Null]
Batch(names, waiting, schemas, tables) ==
    [names |-> names, waiting |-> waiting, schemas |-> schemas, tables |-> tables]
Resting == [pc |-> "idle", batch |-> Batch({}, {}, NothingYet, NothingYet)]
Started == [Resting EXCEPT !.pc = "config"]
Finished == [Resting EXCEPT !.pc = "done"]
Settled(b) == b.waiting = {}

\* What is under way after an answer to one request of its batch.
WithSchema(q, p, s) == [q EXCEPT !.batch =
    Batch(@.names, @.waiting \ {p}, [@.schemas EXCEPT ![p] = s], @.tables)]
WithTable(q, p, t) == [q EXCEPT !.batch =
    Batch(@.names, @.waiting \ {p}, @.schemas, [@.tables EXCEPT ![p] = t])]

\* A run that never starts is as one that has ended.
HookInit ==
    /\ primitiveNames = {} /\ primitiveSchemas = NothingYet
    /\ primitiveData = NothingYet /\ scheduledData = Null
    /\ isInitialLoadComplete = FALSE
    /\ unavailableSchemas = {} /\ unavailableData = {}
    /\ strict \in BOOLEAN
    /\ init = [e \in Runs |-> IF e = "first" \/ strict THEN Started ELSE Finished]
    /\ initScheduled = [e \in Runs |-> IF e = "first" \/ strict THEN "asked" ELSE "done"]
    /\ refresh = [f \in Refreshes |-> Resting] /\ refreshScheduled = "idle"

-----------------------------------------------------------------------------
(* The requests                                                            *)

\* The L2's own primitive has no table; a name listed twice is one name.
extractPrimitiveNames(config) == config \ L2

\* A batch of schemas, less the ones known to be missing or already here.
AskSchemas(names) ==
    LET known == [p \in Primitives |->
                     IF p \in names \ unavailableSchemas THEN primitiveSchemas[p] ELSE Null]
    IN Batch(names, {p \in names \ unavailableSchemas : known[p] = Null}, known, NothingYet)

\* 200 with columns or none, 404, or a failure.
fetchPrimitiveSchema(e, p) ==
    /\ init[e].pc = "schemas" /\ p \in init[e].batch.waiting
    /\ \E s \in Schemas :
          /\ init' = [init EXCEPT ![e] = WithSchema(init[e], p, s)]
          /\ \/ UNCHANGED unavailableSchemas
             \/ s = Null /\ unavailableSchemas' = unavailableSchemas \union {p}
    /\ UNCHANGED <<state, isInitialLoadComplete, unavailableData, strict, initScheduled, reloads>>

AskBlindly(names, schemas) ==  \* mutant: the schema is not passed on
    Batch(names, names \ unavailableData, NothingYet, NothingYet)

\* A batch of tables, less the ones known to be missing.
AskData(names, schemas) == Batch(names, names \ unavailableData, schemas, NothingYet)

\* One answer of fetchPrimitiveData to a batch: a table, a 404, or a failure.
fetchPrimitiveData(b, p, t) ==
    /\ p \in b.waiting
    /\ \/ /\ \E rows \in BOOLEAN : t = convertPrimitiveDataToTableFormat(rows, b.schemas[p])
          /\ UNCHANGED unavailableData
       \/ t = Null /\ unavailableData' \in {unavailableData, unavailableData \union {p}}

\* A failure, or the scheduled inputs.
fetchScheduledData == {Null, "table"}

-----------------------------------------------------------------------------
(* initialize, in one run of the effect                                    *)

\* fetchConfig: no answer, or one that lists nothing, ends the first half.
InitConfig(e) ==
    /\ init[e].pc = "config"
    /\ \/ init' = [init EXCEPT ![e] = Finished] /\ UNCHANGED primitiveNames
       \/ \E config \in SUBSET Primitives :
             /\ primitiveNames' = extractPrimitiveNames(config)
             /\ init' = [init EXCEPT ![e] =
                            IF primitiveNames' = {} THEN Finished
                            ELSE [pc |-> "schemas", batch |-> AskSchemas(primitiveNames')]]
    /\ UNCHANGED <<primitiveSchemas, primitiveData, scheduledData, isInitialLoadComplete,
                   caches, strict, initScheduled, reloads>>

\* All schemas are stored at once, and all tables asked for with them.
InitSchemas(e) ==
    LET b == init[e].batch IN
    /\ init[e].pc = "schemas" /\ Settled(b)
    /\ primitiveSchemas' = b.schemas
    /\ init' = [init EXCEPT ![e] = [pc |-> "data", batch |-> AskData(b.names, b.schemas)]]
    /\ UNCHANGED <<primitiveNames, primitiveData, scheduledData, isInitialLoadComplete,
                   caches, strict, initScheduled, reloads>>

InitAnswer(e, p) ==
    /\ init[e].pc = "data"
    /\ \E t \in Table \union {Null} :
          /\ fetchPrimitiveData(init[e].batch, p, t)
          /\ init' = [init EXCEPT ![e] = WithTable(init[e], p, t)]
    /\ UNCHANGED <<state, isInitialLoadComplete, unavailableSchemas, strict, initScheduled,
                   reloads>>

\* What was there before is replaced, by nothing where a request failed.
InitData(e) ==
    /\ init[e].pc = "data" /\ Settled(init[e].batch)
    /\ primitiveData' = init[e].batch.tables
    /\ init' = [init EXCEPT ![e] = Finished]
    /\ UNCHANGED <<primitiveNames, primitiveSchemas, scheduledData, isInitialLoadComplete,
                   caches, strict, initScheduled, reloads>>

initializeScheduledData(e) ==
    /\ initScheduled[e] = "asked" /\ initScheduled' = [initScheduled EXCEPT ![e] = "done"]
    /\ scheduledData' \in fetchScheduledData
    /\ UNCHANGED <<primitiveNames, primitiveSchemas, primitiveData, isInitialLoadComplete,
                   caches, strict, init, reloads>>

Ended(e) == init[e].pc = "done" /\ initScheduled[e] = "done"

LoadCompletedIfNamed(e) ==  \* mutant: a load that names no primitive does not count
    /\ Ended(e) /\ (e = "first" \/ strict) /\ ~isInitialLoadComplete
    /\ isInitialLoadComplete' = (primitiveNames # {})
    /\ UNCHANGED <<state, caches, loads, reloads>>

\* Both halves of a run have ended.  The intervals it sets next do nothing: the
\* reloads they were to start are commented out.
LoadCompleted(e) ==
    /\ Ended(e) /\ (e = "first" \/ strict) /\ ~isInitialLoadComplete
    /\ isInitialLoadComplete' = TRUE
    /\ UNCHANGED <<state, caches, loads, reloads>>

-----------------------------------------------------------------------------
(* The functions the hook returns                                          *)

RefreshEarly(f) ==  \* mutant: it does not wait for the initial load
    /\ refresh[f] = Resting /\ primitiveNames # {}
    /\ refresh' = [refresh EXCEPT ![f] =
           [pc |-> "data", batch |-> AskData(primitiveNames, primitiveSchemas)]]
    /\ UNCHANGED <<state, isInitialLoadComplete, caches, loads, refreshScheduled>>

refreshPrimitiveData(f) ==
    /\ refresh[f] = Resting
    /\ primitiveNames # {} /\ isInitialLoadComplete
    /\ refresh' = [refresh EXCEPT ![f] =
           [pc |-> "data", batch |-> AskData(primitiveNames, primitiveSchemas)]]
    /\ UNCHANGED <<state, isInitialLoadComplete, caches, loads, refreshScheduled>>

RefreshAnswer(f, p) ==
    /\ \E t \in Table \union {Null} :
          /\ fetchPrimitiveData(refresh[f].batch, p, t)
          /\ refresh' = [refresh EXCEPT ![f] = WithTable(refresh[f], p, t)]
    /\ UNCHANGED <<state, isInitialLoadComplete, unavailableSchemas, loads, refreshScheduled>>

\* Only what was answered replaces what there is.
Refreshed(f) ==
    /\ refresh[f].pc = "data" /\ Settled(refresh[f].batch)
    /\ primitiveData' = [p \in Primitives |->
           LET t == refresh[f].batch.tables[p] IN IF t = Null THEN primitiveData[p] ELSE t]
    /\ refresh' = [refresh EXCEPT ![f] = Resting]
    /\ UNCHANGED <<primitiveNames, primitiveSchemas, scheduledData, isInitialLoadComplete,
                   caches, loads, refreshScheduled>>

refreshScheduledData ==
    /\ isInitialLoadComplete /\ refreshScheduled = "idle"
    /\ refreshScheduled' = "asked"
    /\ UNCHANGED <<state, isInitialLoadComplete, caches, loads, refresh>>

ScheduledRefreshed ==
    /\ refreshScheduled = "asked" /\ refreshScheduled' = "idle"
    /\ \E t \in fetchScheduledData : scheduledData' = IF t = Null THEN scheduledData ELSE t
    /\ UNCHANGED <<primitiveNames, primitiveSchemas, primitiveData, isInitialLoadComplete,
                   caches, loads, refresh>>

-----------------------------------------------------------------------------
Initialize ==
    \/ \E e \in Runs : InitConfig(e) \/ InitSchemas(e) \/ InitData(e)
                        \/ initializeScheduledData(e) \/ LoadCompleted(e)
    \/ \E e \in Runs, p \in Primitives : fetchPrimitiveSchema(e, p) \/ InitAnswer(e, p)

Reload ==
    \/ \E f \in Refreshes : refreshPrimitiveData(f) \/ Refreshed(f)
    \/ \E f \in Refreshes, p \in Primitives : RefreshAnswer(f, p)
    \/ refreshScheduledData \/ ScheduledRefreshed

HookNext == Initialize \/ Reload

\* Every fetch of the initial load settles.  Nobody need call the rest.
HookSpec == HookInit /\ [][HookNext]_hookVars /\ WF_hookVars(Initialize)

\* A table once shown stays shown: neither a request that fails, nor a 404,
\* nor the end of the initial load after a reload takes it away ("Don't clear
\* data on error, keep existing data", useTableData.ts:400).  In a development
\* build that is so from the end of its two loads on: until then the second to
\* end may put nothing in the place of what the first, or a reload, has shown.
KeepsWhatItShowed ==
    [][ ~strict \/ (\A e \in Runs : Ended(e)) =>
           /\ \A p \in Primitives : primitiveData[p] # Null => primitiveData'[p] # Null
           /\ scheduledData # Null => scheduledData' # Null ]_hookVars

\* Where the node gave a schema the columns shown are the schema's and never
\* guessed from a row, whichever request brought the rows.  Two loads side by
\* side may be told different schemas: this is of a build with one.
ColumnsFollowSchema ==
    ~strict => \A p \in Primitives :
        primitiveSchemas[p] = "columns" /\ primitiveData[p] # Null =>
            primitiveData[p].fields = "schema"

\* The initial load ends, in each of its runs, and the reload functions with it
\* become usable: no failed config, 404 or empty answer leaves one waiting.
InitialLoadEnds == <>(isInitialLoadComplete /\ \A e \in Runs : Ended(e))

=============================================================================
