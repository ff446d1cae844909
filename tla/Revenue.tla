------------------------------- MODULE Revenue -------------------------------
(***************************************************************************)
(* The import of revenue statements (services/revenue_import.py) into      *)
(* revenue_entries, beside other imports and other uploads of the same     *)
(* statement.                                                              *)
(*                                                                         *)
(* What the owner earns are earnings; a statement lists some of them in    *)
(* one layout.  In a layout with a reference column a row is known by its  *)
(* earning's reference, in any other by the hash of the row's content,     *)
(* which two earnings may share and which another layout changes.          *)
(***************************************************************************)
EXTENDS Integers, FiniteSets

CONSTANTS
    Earnings,
    Wording,      \* [Earnings -> what a row without a reference says of it]
    Readable,     \* earnings whose date and amount parse, the amount not to zero
    Layouts,      \* layouts of a statement
    WithRef,      \* those that have a reference column
    Statements,   \* sets of rows <<earning, layout>>
    Importers     \* requests that import

ASSUME RevenueAssumption ==
    /\ IsFiniteSet(Earnings) /\ IsFiniteSet(Importers)
    /\ DOMAIN Wording = Earnings
    /\ Readable \subseteq Earnings
    /\ WithRef \subseteq Layouts
    /\ Statements \subseteq SUBSET (Earnings \X Layouts)
    /\ \A file \in Statements : \A p, q \in file : p[2] = q[2]

VARIABLES
    entries,     \* revenue_entries: rows <<earning, layout>>
    import,      \* what each import is doing
    uploaded     \* history: rows of the statements that were imported

revenue == <<entries, import, uploaded>>

Rows == Earnings \X Layouts
Import == [pc   : {"idle", "read", "commit"},
           todo : SUBSET Rows,       \* rows not read yet
           new  : SUBSET Rows,       \* rows added to the session
           file : SUBSET Rows,       \* the statement
           beside : BOOLEAN]         \* history: one of its rows was also being
                                     \* imported by another request
NoImport == [pc |-> "idle", todo |-> {}, new |-> {}, file |-> {}, beside |-> FALSE]

RevenueTypeOK ==
    /\ entries \subseteq Rows
    /\ import \in [Importers -> Import]
    /\ uploaded \subseteq Rows

RevenueInit ==
    /\ entries = {}
    /\ import = [i \in Importers |-> NoImport]
    /\ uploaded = {}

-----------------------------------------------------------------------------
(* external_ref: the reference, or row_fingerprint.                          *)
Ref(row) ==
    IF row[2] \in WithRef THEN <<"ref", row[1]>> ELSE <<"csv", row[2], Wording[row[1]]>>

Refs(rows) == {Ref(row) : row \in rows}

Overlap(rows, file) == Refs(rows) \cap Refs(file) # {}

(* import_csv is asked to read a statement.                                  *)
StartImport(i, file) ==
    LET Near(j) == j # i /\ Overlap(import[j].file, file)
    IN  /\ import[i].pc = "idle"
        /\ import' = [j \in Importers |->
             IF j # i THEN [import[j] EXCEPT !.beside = @ \/ Near(j)]
             ELSE [pc |-> "read", todo |-> file, new |-> {}, file |-> file,
                   beside |-> \E k \in Importers : Near(k)]]
        /\ UNCHANGED <<entries, uploaded>>

(* Mutant: only the rows of this statement are looked through.               *)
Known_InFile(i, row) == Ref(row) \in Refs(import[i].new)

(* The lookup sees what is committed.  The session does not flush by itself, *)
(* so it does not see the rows that this statement has added.                *)
Known(i, row) == Ref(row) \in Refs(entries)

(* The rows are read in the order of the statement.                          *)
NextRow(i) == CHOOSE row \in import[i].todo : TRUE

(* One row: an error, a duplicate, or a new entry.                           *)
ReadRow(i) ==
    LET row == NextRow(i)
    IN  /\ import[i].pc = "read" /\ import[i].todo # {}
        /\ import' = [import EXCEPT ![i].todo = @ \ {row},
             ![i].new = IF row[1] \in Readable /\ ~Known(i, row) THEN @ \cup {row} ELSE @]
        /\ UNCHANGED <<entries, uploaded>>

Flushed(i) == import[i].pc = "commit"

(* Two rows of a statement that share their reference.                       *)
Twins(rows) == \E p, q \in rows : p # q /\ Ref(p) = Ref(q)

(* Mutant: there is no unique constraint.                                    *)
Unique_Never(i) == TRUE

(* uq_revenue_external_ref                                                   *)
Unique(i) == ~Twins(import[i].new) /\ ~Overlap(import[i].new, entries)

(* The flush inserts them all, and waits for another import that has         *)
(* inserted one of them.                                                     *)
Flush(i) ==
    /\ import[i].pc = "read" /\ import[i].todo = {} /\ Unique(i)
    /\ \A j \in Importers \ {i} : Flushed(j) => ~Overlap(import[j].new, import[i].new)
    /\ import' = [import EXCEPT ![i].pc = "commit"]
    /\ UNCHANGED <<entries, uploaded>>

(* The error of the flush is the whole import's.                             *)
FlushFails(i) ==
    /\ import[i].pc = "read" /\ import[i].todo = {} /\ ~Unique(i)
    /\ import' = [import EXCEPT ![i] = NoImport]
    /\ UNCHANGED <<entries, uploaded>>

CommitImport(i) ==
    /\ Flushed(i)
    /\ entries' = entries \cup import[i].new
    /\ uploaded' = uploaded \cup import[i].file
    /\ import' = [import EXCEPT ![i] = NoImport]

CrashImport(i) ==
    /\ import[i].pc # "idle"
    /\ import' = [import EXCEPT ![i] = NoImport]
    /\ UNCHANGED <<entries, uploaded>>

ImportStep(i) ==
    \/ \E file \in Statements : StartImport(i, file)
    \/ ReadRow(i) \/ Flush(i) \/ FlushFails(i) \/ CommitImport(i) \/ CrashImport(i)

-----------------------------------------------------------------------------
(* Properties *)

(* However often its statement is uploaded, by how many requests at once,    *)
(* and whatever fails in between, an earning that can be read counts exactly *)
(* once: the entries hold one row for each that was imported, and none is    *)
(* about to be committed again.  Only another layout makes it count again,   *)
(* and rows that read the same count as one.                                 *)
EarningsCountOnce ==
    LET counted == Refs({row \in uploaded : row[1] \in Readable})
    IN  /\ Refs(entries) = counted /\ Cardinality(entries) = Cardinality(counted)
        /\ \A i \in Importers : Flushed(i) => ~Overlap(import[i].new, entries)

(* A statement goes in as a whole: the flush of an import fails only when    *)
(* two of the statement's rows read the same, or when another request was    *)
(* importing one of them at the same time.                                   *)
SoundStatementsGoIn ==
    \A i \in Importers :
        import[i].pc = "read" /\ import[i].todo = {} /\ ~Unique(i)
            => Twins(import[i].file) \/ import[i].beside
=============================================================================
