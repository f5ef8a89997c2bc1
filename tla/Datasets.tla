------------------------------- MODULE Datasets -------------------------------
(***************************************************************************)
(* The registry of loaded datasets the query surface works on.  A dataset  *)
(* of a stored table is the list of Parquet files the table had when it    *)
(* was loaded, scanned at each query; only an upload without a store is    *)
(* held as a frame.  Tables go on changing under their datasets: a file is *)
(* added, or all are replaced and the old ones unlinked.                   *)
(*                                                                         *)
(* A file is [source, table, n]; an answer is the set of files it was read *)
(* from.                                                                   *)
(***************************************************************************)
EXTENDS Integers, FiniteSets, Functions

CONSTANTS
    Source,      \* sources that exist before anything is uploaded
    Uploads,     \* ids for the sources, or the datasets, that uploads make
    Table,       \* table names: the same name may be in two sources
    Client,      \* requests under way
    MaxFiles,    \* bound on the files ever written
    MaxQueries   \* bound on queries

VARIABLES
    configured,  \* whether the server has a store
    tables,      \* <<source, table>> -> its files in the catalog
    named,       \* sources with a `sources` row
    disk,        \* the files that exist
    datasets,    \* id -> what it reads: a set of files
    request,     \* each client's request: idle, uploading or querying
    answers,     \* ghost: [of, id, read] for each query answered
    past,        \* ghost: each set of files each table has had
    written, used, queries

store == <<tables, named, disk, past, written>>
vars == <<configured, store, datasets, request, answers, used, queries>>

Sources == Source \cup Uploads
Idle == [pc |-> "idle"]
FileOf(s, t, n) == [source |-> s, table |-> t, n |-> n]

\* Faulty variant of DatasetId: the name of the table alone.
DatasetIdBare(s, t) == <<"store", t>>

\* The id of a stored table's dataset names its source too; an upload held in
\* memory gets an id of its own.
DatasetId(s, t) == <<"store", s, t>>
FreshId(u) == <<"uuid", u>>

Init ==
    /\ configured \in BOOLEAN
    /\ tables = [st \in Sources \X Table |-> {}]
    /\ named = Source /\ disk = {} /\ past = [st \in Sources \X Table |-> {}]
    /\ datasets = [id \in {<<"default">>} |-> {FileOf("none", "default", 0)}]
    /\ request = [c \in Client |-> Idle]
    /\ answers = {} /\ written = 0 /\ used = {} /\ queries = 0

\* One file more in the table, or the table made anew of one file.
Write(s, t, replace) ==
    LET file == FileOf(s, t, written + 1)
        after == (IF replace THEN {} ELSE tables[<<s, t>>]) \cup {file}
    IN /\ written < MaxFiles /\ written' = written + 1
       /\ tables' = [tables EXCEPT ![<<s, t>>] = after]
       /\ past' = [past EXCEPT ![<<s, t>>] = @ \cup {after}]
       /\ disk' = (IF replace THEN disk \ tables[<<s, t>>] ELSE disk) \cup {file}

WriteTable ==
    /\ configured
    /\ \E s \in Source \cup used, t \in Table, replace \in BOOLEAN : Write(s, t, replace)
    /\ UNCHANGED <<configured, named, datasets, request, answers, used, queries>>

Registered(id, data) == [i \in DOMAIN datasets \cup {id} |-> IF i = id THEN data ELSE datasets[i]]

\* load_table: what the store has now, whatever was registered before.
LoadTable(s, t) ==
    /\ configured /\ tables[<<s, t>>] # {}
    /\ datasets' = Registered(DatasetId(s, t), tables[<<s, t>>])
    /\ UNCHANGED <<configured, store, request, answers, used, queries>>

DeleteDataset(id) ==
    /\ id \in DOMAIN datasets \ {<<"default">>}
    /\ datasets' = Restrict(datasets, DOMAIN datasets \ {id})
    /\ UNCHANGED <<configured, store, request, answers, used, queries>>

\* An upload is a source of its own: the file is ingested, the source named,
\* the table loaded. A file without rows is refused before all of it; without
\* a store the frame is registered as it is.
Upload(c, s, t) ==
    /\ request[c] = Idle /\ s \in Uploads \ used
    /\ used' = used \cup {s}
    /\ \/ /\ configured /\ Write(s, t, FALSE)
          /\ request' = [request EXCEPT ![c] = [pc |-> "name", source |-> s, table |-> t]]
          /\ UNCHANGED datasets
       \/ /\ ~configured
          /\ datasets' = Registered(FreshId(s), {FileOf(s, t, 0)})
          /\ UNCHANGED <<tables, past, disk, written, request>>
    /\ UNCHANGED <<configured, named, answers, queries>>

NameSource(c, fails) ==
    /\ request[c].pc = "name"
    /\ named' = IF fails THEN named ELSE named \cup {request[c].source}
    /\ request' = [request EXCEPT ![c] = IF fails THEN Idle ELSE [@ EXCEPT !.pc = "load"]]
    /\ UNCHANGED <<configured, tables, disk, past, written, datasets, answers, used, queries>>

LoadUpload(c) ==
    /\ request[c].pc = "load"
    /\ LET s == request[c].source  t == request[c].table
       IN datasets' = Registered(DatasetId(s, t), tables[<<s, t>>])
    /\ request' = [request EXCEPT ![c] = Idle]
    /\ UNCHANGED <<configured, store, answers, used, queries>>

\* A query by the id the client was given for its table; it takes the data out
\* of the registry and runs on a blocking thread.
Ask(c, s, t) ==
    /\ request[c] = Idle /\ queries < MaxQueries
    /\ queries' = queries + 1
    /\ DatasetId(s, t) \in DOMAIN datasets
    /\ request' = [request EXCEPT ![c] = [pc |-> "run", source |-> s, table |-> t,
                                          data |-> datasets[DatasetId(s, t)]]]
    /\ UNCHANGED <<configured, store, datasets, answers, used>>

\* A scan of a file that is gone fails the query.
Execute(c) ==
    /\ request[c].pc = "run"
    /\ answers' = IF request[c].data \subseteq disk
                  THEN answers \cup {[of |-> <<request[c].source, request[c].table>>,
                                      read |-> request[c].data]}
                  ELSE answers
    /\ request' = [request EXCEPT ![c] = Idle]
    /\ UNCHANGED <<configured, store, datasets, used, queries>>

Next ==
    \/ WriteTable
    \/ \E s \in Sources, t \in Table : LoadTable(s, t)
    \/ \E id \in DOMAIN datasets : DeleteDataset(id)
    \/ \E c \in Client :
         \/ LoadUpload(c) \/ Execute(c)
         \/ \E s \in Sources, t \in Table : Upload(c, s, t) \/ Ask(c, s, t)
         \/ \E fails \in BOOLEAN : NameSource(c, fails)

Spec == Init /\ [][Next]_vars

-----------------------------------------------------------------------------
\* An answered query read one state of the table it was asked about, whole:
\* never another source's table of the same name, and never a mixture of the
\* table before and after a write (session.rs:194-213, executor.rs:18-25).
AnswersOneTable == \A a \in answers : a.read \in past[a.of]
=============================================================================
