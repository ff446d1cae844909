--------------------------- MODULE ReportsProofs ---------------------------
(***************************************************************************)
(* Theorems about Reports and the import of revenue it composes, for any   *)
(* earnings, layouts, statements and counts, and any number of imports and *)
(* generations at once.                                                    *)
(***************************************************************************)
EXTENDS Reports, FiniteSetTheorems, WellFoundedInduction, TLAPS

-----------------------------------------------------------------------------
(* References *)

(* Two sets of rows overlap when a row of one reads as a row of the other.   *)
LEMMA OverlapIs ==
    ASSUME NEW rows, NEW file
    PROVE  Overlap(rows, file) <=> \E p \in rows, q \in file : Ref(p) = Ref(q)
  BY DEF Overlap, Refs

LEMMA RefsIs ==
    ASSUME NEW rows, NEW ref
    PROVE  ref \in Refs(rows) <=> \E p \in rows : Ref(p) = ref
  BY DEF Refs

-----------------------------------------------------------------------------
(* The imports *)

(* What an import has read of its statement: every readable row it is done   *)
(* with is known, by the table or by what it adds.                           *)
ImportFits(t) ==
    /\ t.file \in Statements \cup {{}}
    /\ t.todo \subseteq t.file /\ t.new \subseteq t.file
    /\ t.pc = "commit" => t.todo = {}
    /\ \A row \in t.new : row[1] \in Readable
    /\ \A row \in t.file \ t.todo :
          row[1] \in Readable => Ref(row) \in Refs(t.new) \cup Refs(entries)

ImportsFit == \A i \in Importers : ImportFits(import[i])

(* The unique constraint: what is flushed is in nobody else's way.           *)
FlushedApart ==
    \A i \in Importers : Flushed(i) =>
        /\ ~Twins(import[i].new) /\ ~Overlap(import[i].new, entries)
        /\ \A j \in Importers \ {i} : Flushed(j) => ~Overlap(import[i].new, import[j].new)

(* Imports of one row at once know of each other, and a row that got into    *)
(* the table after it was looked up came from such an import.                *)
BesideSeen ==
    \A i \in Importers :
        /\ \A j \in Importers \ {i} :
              Overlap(import[i].file, import[j].file) => import[i].beside
        /\ Overlap(import[i].new, entries) => import[i].beside

(* The table holds one row for each readable row of what was imported.       *)
EntriesFit ==
    /\ IsFiniteSet(entries) /\ ~Twins(entries)
    /\ Refs(entries) = Refs({row \in uploaded : row[1] \in Readable})

RevenueInv == RevenueTypeOK /\ ImportsFit /\ FlushedApart /\ BesideSeen /\ EntriesFit

LEMMA NoImportFits ==
    NoImport \in Import /\ ImportFits(NoImport)
  BY DEF NoImport, Import, ImportFits

(* A statement is finite: its rows are of one layout.                        *)
LEMMA FilesFinite ==
    ASSUME NEW file \in Statements \cup {{}}
    PROVE  IsFiniteSet(file) /\ file \subseteq Rows
  <1>1. CASE file = {}
    BY <1>1, FS_EmptySet
  <1>2. CASE file \in Statements /\ file # {}
    <2>1. PICK p \in file : TRUE
      BY <1>2
    <2>2. file \subseteq Earnings \X Layouts /\ \A q \in file : q[2] = p[2]
      BY <1>2, RevenueAssumption
    <2>3. file \subseteq Earnings \X {p[2]}
      BY <2>2
    <2>4. IsFiniteSet(Earnings \X {p[2]})
      <3>1. IsFiniteSet({p[2]}) /\ IsFiniteSet(Earnings)
        BY FS_Singleton, RevenueAssumption
      <3> QED BY <3>1, FS_Product
    <2> QED BY <2>2, <2>3, <2>4, FS_Subset DEF Rows
  <1> QED BY <1>1, <1>2

(* One import's step that leaves the table alone.                            *)
LEMMA ImportUpdate ==
    ASSUME RevenueInv, NEW i \in Importers, NEW t \in Import,
           import' = [import EXCEPT ![i] = t],
           entries' = entries, uploaded' = uploaded,
           ImportFits(t),
           t.pc = "commit" =>
               /\ ~Twins(t.new) /\ ~Overlap(t.new, entries)
               /\ \A j \in Importers \ {i} : Flushed(j) => ~Overlap(t.new, import[j].new),
           t.file = {} \/ (t.file = import[i].file /\ t.beside = import[i].beside),
           Overlap(t.new, entries) => t.beside
    PROVE  RevenueInv'
  <1>1. import \in [Importers -> Import]
    BY DEF RevenueInv, RevenueTypeOK
  <1>2. import'[i] = t /\ \A j \in Importers \ {i} : import'[j] = import[j]
    BY <1>1
  <1>3. RevenueTypeOK'
    BY DEF RevenueInv, RevenueTypeOK
  <1>4. ImportsFit'
    BY <1>2 DEF RevenueInv, ImportsFit, ImportFits
  <1>5. FlushedApart'
    <2> SUFFICES ASSUME NEW k \in Importers, import'[k].pc = "commit"
                 PROVE  /\ ~Twins(import'[k].new) /\ ~Overlap(import'[k].new, entries)
                        /\ \A j \in Importers \ {k} : import'[j].pc = "commit" =>
                              ~Overlap(import'[k].new, import'[j].new)
      BY DEF FlushedApart, Flushed, Twins, Overlap, Refs
    <2>1. CASE k = i
      BY <1>2, <2>1 DEF Flushed
    <2>2. CASE k # i
      <3>1. /\ import'[k] = import[k] /\ Flushed(k)
            /\ ~Twins(import[k].new) /\ ~Overlap(import[k].new, entries)
            /\ \A j \in Importers \ {k} : Flushed(j) => ~Overlap(import[k].new, import[j].new)
        BY <1>2, <2>2 DEF RevenueInv, FlushedApart, Flushed
      <3>2. ASSUME NEW j \in Importers \ {k}, import'[j].pc = "commit"
            PROVE  ~Overlap(import[k].new, import'[j].new)
        <4>1. CASE j = i
          BY <1>2, <2>2, <3>1, <3>2, <4>1, OverlapIs
        <4>2. CASE j # i
          BY <1>2, <3>1, <3>2, <4>2 DEF Flushed
        <4> QED BY <4>1, <4>2
      <3> QED BY <3>1, <3>2
    <2> QED BY <2>1, <2>2
  <1>6. BesideSeen'
    <2> SUFFICES ASSUME NEW k \in Importers
                 PROVE  /\ \A j \in Importers \ {k} :
                              Overlap(import'[k].file, import'[j].file) => import'[k].beside
                        /\ Overlap(import'[k].new, entries) => import'[k].beside
      BY DEF BesideSeen, Overlap, Refs
    <2>1. \A j \in Importers : import'[j].file \in {{}, import[j].file}
      BY <1>2
    <2>2. Overlap(import'[k].new, entries) => import'[k].beside
      BY <1>2 DEF RevenueInv, BesideSeen
    <2>3. ASSUME NEW j \in Importers \ {k}, Overlap(import'[k].file, import'[j].file)
          PROVE  import'[k].beside
      <3>1. Overlap(import[k].file, import[j].file) /\ import'[k].file # {}
        BY <2>1, <2>3, OverlapIs
      <3>2. import[k].beside
        BY <3>1 DEF RevenueInv, BesideSeen
      <3> QED BY <1>2, <3>1, <3>2
    <2> QED BY <2>2, <2>3
  <1>7. EntriesFit'
    BY DEF RevenueInv, EntriesFit, Twins, Refs
  <1> QED BY <1>3, <1>4, <1>5, <1>6, <1>7 DEF RevenueInv

(* An import that is given up, or that fails.                                *)
LEMMA DropKeeps ==
    ASSUME RevenueInv, NEW i \in Importers, CrashImport(i) \/ FlushFails(i)
    PROVE  RevenueInv'
  <1>1. /\ import' = [import EXCEPT ![i] = NoImport]
        /\ entries' = entries /\ uploaded' = uploaded
    BY DEF CrashImport, FlushFails
  <1>2. NoImport.pc # "commit" /\ NoImport.file = {} /\ NoImport.new = {}
    BY DEF NoImport
  <1>3. ~Overlap(NoImport.new, entries)
    BY <1>2, OverlapIs
  <1> QED BY <1>1, <1>2, <1>3, NoImportFits, ImportUpdate

(* A row is read.                                                            *)
LEMMA ReadRowKeeps ==
    ASSUME RevenueInv, NEW i \in Importers, ReadRow(i)
    PROVE  RevenueInv'
  <1> DEFINE row == NextRow(i)
             new == IF row[1] \in Readable /\ ~Known(i, row)
                    THEN import[i].new \cup {row} ELSE import[i].new
             t == [import[i] EXCEPT !.todo = @ \ {row}, !.new = new]
  <1>1. /\ import[i] \in Import /\ ImportFits(import[i])
        /\ import[i].pc = "read" /\ import[i].todo # {}
        /\ entries' = entries /\ uploaded' = uploaded
    BY DEF RevenueInv, RevenueTypeOK, ImportsFit, ReadRow
  <1>2. row \in import[i].todo
    BY <1>1 DEF NextRow
  <1>3. row \in Rows
    BY <1>1, <1>2 DEF Import
  <1>4. import' = [import EXCEPT ![i] = t]
    BY DEF ReadRow
  <1>5. new \subseteq Rows
    BY <1>1, <1>3 DEF Import
  <1> HIDE DEF row
  <1>6. /\ t \in Import
        /\ t.pc = "read" /\ t.todo = import[i].todo \ {row} /\ t.new = new
        /\ t.file = import[i].file /\ t.beside = import[i].beside
    BY <1>1, <1>5 DEF Import
  <1> HIDE DEF t
  <1>7. ImportFits(t)
    <2>1. t.new \subseteq t.file /\ \A q \in t.new : q[1] \in Readable
      BY <1>1, <1>2, <1>6 DEF ImportFits
    <2>2. ASSUME NEW q \in t.file \ t.todo, q[1] \in Readable
          PROVE  Ref(q) \in Refs(t.new) \cup Refs(entries)
      <3>1. CASE q = row
        BY <1>6, <2>2, <3>1, RefsIs DEF Known
      <3>2. CASE q # row
        <4>1. Ref(q) \in Refs(import[i].new) \cup Refs(entries)
          BY <1>1, <1>6, <2>2, <3>2 DEF ImportFits
        <4> QED BY <1>6, <4>1, RefsIs
      <3> QED BY <3>1, <3>2
    <2> QED BY <1>1, <1>6, <2>1, <2>2 DEF ImportFits
  <1>8. Overlap(t.new, entries) => t.beside
    <2> SUFFICES ASSUME Overlap(t.new, entries) PROVE t.beside
      OBVIOUS
    <2>1. Overlap(import[i].new, entries)
      <3>1. PICK p \in t.new, q \in entries : Ref(p) = Ref(q)
        BY OverlapIs
      <3>2. Ref(p) \in Refs(entries)
        BY <3>1, RefsIs
      <3>3. p \in import[i].new
        BY <1>6, <3>2 DEF Known
      <3> QED BY <3>1, <3>3, OverlapIs
    <2> QED BY <1>6, <2>1 DEF RevenueInv, BesideSeen
  <1> QED BY <1>1, <1>4, <1>6, <1>7, <1>8, ImportUpdate

(* The flush passes the unique constraint.                                   *)
LEMMA FlushKeeps ==
    ASSUME RevenueInv, NEW i \in Importers, Flush(i)
    PROVE  RevenueInv'
  <1> DEFINE t == [import[i] EXCEPT !.pc = "commit"]
  <1>1. /\ import[i] \in Import /\ ImportFits(import[i])
        /\ import[i].pc = "read" /\ import[i].todo = {}
        /\ entries' = entries /\ uploaded' = uploaded
    BY DEF RevenueInv, RevenueTypeOK, ImportsFit, Flush
  <1>2. import' = [import EXCEPT ![i] = t]
    BY DEF Flush
  <1>3. /\ t \in Import
        /\ t.pc = "commit" /\ t.todo = {} /\ t.new = import[i].new
        /\ t.file = import[i].file /\ t.beside = import[i].beside
    BY <1>1 DEF Import
  <1> HIDE DEF t
  <1>4. ImportFits(t)
    BY <1>1, <1>3 DEF ImportFits
  <1>5. /\ ~Twins(t.new) /\ ~Overlap(t.new, entries)
        /\ \A j \in Importers \ {i} : Flushed(j) => ~Overlap(t.new, import[j].new)
    BY <1>3, OverlapIs DEF Flush, Unique
  <1> QED BY <1>1, <1>2, <1>3, <1>4, <1>5, ImportUpdate

(* A statement arrives: its import and those it overlaps with are marked.    *)
LEMMA StartKeeps ==
    ASSUME RevenueInv, NEW i \in Importers, NEW file \in Statements, StartImport(i, file)
    PROVE  RevenueInv'
  <1> DEFINE Near(j) == j # i /\ Overlap(import[j].file, file)
             t == [pc |-> "read", todo |-> file, new |-> {}, file |-> file,
                   beside |-> \E k \in Importers : Near(k)]
  <1>1. /\ import \in [Importers -> Import] /\ file \subseteq Rows
        /\ import[i].pc = "idle"
        /\ entries' = entries /\ uploaded' = uploaded
    BY FilesFinite DEF RevenueInv, RevenueTypeOK, StartImport
  <1>2. import' = [j \in Importers |->
             IF j # i THEN [import[j] EXCEPT !.beside = @ \/ Near(j)] ELSE t]
    BY DEF StartImport
  <1>3. t \in Import /\ t.pc = "read" /\ t.todo = file /\ t.new = {} /\ t.file = file
        /\ (t.beside <=> \E k \in Importers : Near(k))
    BY <1>1 DEF Import
  <1>4. import'[i] = t
    BY <1>2
  <1> HIDE DEF t
  <1>5. ASSUME NEW j \in Importers \ {i}
        PROVE  /\ import'[j] \in Import
               /\ import'[j].pc = import[j].pc /\ import'[j].todo = import[j].todo
               /\ import'[j].new = import[j].new /\ import'[j].file = import[j].file
               /\ import'[j].beside <=> import[j].beside \/ Near(j)
    <2>1. import'[j] = [import[j] EXCEPT !.beside = @ \/ Near(j)] /\ import[j] \in Import
      BY <1>1, <1>2
    <2>2. (import[j].beside \/ Near(j)) \in BOOLEAN
      BY DEF Overlap
    <2> HIDE DEF Near
    <2>3. DEFINE b == import[j].beside \/ Near(j)
    <2>4. import'[j] = [import[j] EXCEPT !.beside = b] /\ b \in BOOLEAN
      BY <2>1, <2>2
    <2>5. b <=> import[j].beside \/ Near(j)
      OBVIOUS
    <2> HIDE DEF b
    <2> QED BY <2>1, <2>4, <2>5 DEF Import
  <1>6. RevenueTypeOK'
    <2>1. \A j \in Importers : import'[j] \in Import
      BY <1>3, <1>4, <1>5
    <2> QED BY <1>1, <1>2, <2>1 DEF RevenueInv, RevenueTypeOK
  <1>7. ImportsFit'
    <2>1. ImportFits(t)
      BY <1>3 DEF ImportFits
    <2>2. ASSUME NEW j \in Importers
          PROVE  ImportFits(import'[j])
      <3>1. CASE j = i
        BY <1>4, <2>1, <3>1
      <3>2. CASE j # i
        BY <1>5, <3>2 DEF RevenueInv, ImportsFit, ImportFits
      <3> QED BY <3>1, <3>2
    <2> QED BY <1>1, <2>2 DEF ImportsFit, ImportFits
  <1>8. FlushedApart'
    <2> SUFFICES ASSUME NEW k \in Importers, import'[k].pc = "commit"
                 PROVE  /\ ~Twins(import'[k].new) /\ ~Overlap(import'[k].new, entries)
                        /\ \A j \in Importers \ {k} : import'[j].pc = "commit" =>
                              ~Overlap(import'[k].new, import'[j].new)
      BY <1>1 DEF FlushedApart, Flushed, Twins, Overlap, Refs
    <2>1. k # i
      BY <1>3, <1>4
    <2>2. \A j \in Importers : import'[j].pc = "commit" =>
             j # i /\ Flushed(j) /\ import'[j].new = import[j].new
      BY <1>3, <1>4, <1>5 DEF Flushed
    <2> QED BY <2>1, <2>2 DEF RevenueInv, FlushedApart
  <1>9. BesideSeen'
    <2> SUFFICES ASSUME NEW k \in Importers
                 PROVE  /\ \A j \in Importers \ {k} :
                              Overlap(import'[k].file, import'[j].file) => import'[k].beside
                        /\ Overlap(import'[k].new, entries) => import'[k].beside
      BY <1>1 DEF BesideSeen, Overlap, Refs
    <2>1. CASE k = i
      <3>1. ~Overlap(import'[k].new, entries)
        BY <1>3, <1>4, <2>1, OverlapIs
      <3>2. ASSUME NEW j \in Importers \ {k}, Overlap(import'[k].file, import'[j].file)
            PROVE  import'[k].beside
        <4>1. j # i /\ Overlap(file, import[j].file)
          BY <1>3, <1>4, <1>5, <2>1, <3>2
        <4>2. Near(j)
          BY <4>1, OverlapIs
        <4> HIDE DEF Near
        <4>3. t.beside
          BY <1>3, <4>2
        <4> QED BY <1>4, <2>1, <4>3
      <3> QED BY <3>1, <3>2
    <2>2. CASE k # i
      <3>1. Overlap(import'[k].new, entries) => import'[k].beside
        BY <1>5, <2>2 DEF RevenueInv, BesideSeen
      <3>2. ASSUME NEW j \in Importers \ {k}, Overlap(import'[k].file, import'[j].file)
            PROVE  import'[k].beside
        <4>1. CASE j = i
          <5>1. Near(k)
            BY <1>3, <1>4, <1>5, <2>2, <3>2, <4>1
          <5> QED BY <1>5, <2>2, <5>1
        <4>2. CASE j # i
          <5>1. Overlap(import[k].file, import[j].file)
            BY <1>5, <2>2, <3>2, <4>2
          <5>2. import[k].beside
            BY <5>1 DEF RevenueInv, BesideSeen
          <5> QED BY <1>5, <2>2, <5>2
        <4> QED BY <4>1, <4>2
      <3> QED BY <3>1, <3>2
    <2> QED BY <2>1, <2>2
  <1>10. EntriesFit'
    BY <1>1 DEF RevenueInv, EntriesFit, Twins, Refs
  <1> QED BY <1>6, <1>7, <1>8, <1>9, <1>10 DEF RevenueInv

(* The entries of one import are committed.                                  *)
LEMMA CommitKeeps ==
    ASSUME RevenueInv, NEW i \in Importers, CommitImport(i)
    PROVE  RevenueInv'
  <1> DEFINE new == import[i].new
  <1>1. /\ import \in [Importers -> Import]
        /\ import[i] \in Import /\ ImportFits(import[i]) /\ Flushed(i)
        /\ entries' = entries \cup new
        /\ uploaded' = uploaded \cup import[i].file
        /\ import' = [import EXCEPT ![i] = NoImport]
    BY DEF RevenueInv, RevenueTypeOK, ImportsFit, CommitImport
  <1>2. import'[i] = NoImport /\ \A j \in Importers \ {i} : import'[j] = import[j]
    BY <1>1
  <1>3. NoImport.pc = "idle" /\ NoImport.file = {} /\ NoImport.new = {} /\ NoImport.todo = {}
    BY DEF NoImport
  <1>4. /\ ~Twins(new) /\ ~Overlap(new, entries)
        /\ \A j \in Importers \ {i} : Flushed(j) => ~Overlap(new, import[j].new)
    BY <1>1 DEF RevenueInv, FlushedApart
  <1>5. /\ import[i].file \in Statements \cup {{}} /\ new \subseteq import[i].file
        /\ \A row \in new : row[1] \in Readable
        /\ \A row \in import[i].file :
              row[1] \in Readable => Ref(row) \in Refs(new) \cup Refs(entries)
    BY <1>1 DEF ImportFits, Flushed
  <1>6. IsFiniteSet(import[i].file) /\ import[i].file \subseteq Rows
    BY <1>5, FilesFinite
  <1> HIDE DEF new
  <1>7. RevenueTypeOK'
    <2>1. import' \in [Importers -> Import]
      BY <1>1, NoImportFits
    <2>2. entries \subseteq Rows /\ uploaded \subseteq Rows
      BY DEF RevenueInv, RevenueTypeOK
    <2>3. entries' \subseteq Rows /\ uploaded' \subseteq Rows
      BY <1>1, <1>5, <1>6, <2>2
    <2> QED BY <2>1, <2>3 DEF RevenueTypeOK, Rows, Import
  <1>8. ImportsFit'
    <2>1. ASSUME NEW j \in Importers
          PROVE  /\ import'[j].file \in Statements \cup {{}}
                 /\ import'[j].todo \subseteq import'[j].file
                 /\ import'[j].new \subseteq import'[j].file
                 /\ import'[j].pc = "commit" => import'[j].todo = {}
                 /\ \A row \in import'[j].new : row[1] \in Readable
                 /\ \A row \in import'[j].file \ import'[j].todo : row[1] \in Readable =>
                       Ref(row) \in Refs(import'[j].new) \cup Refs(entries')
      <3>1. CASE j = i
        BY <1>2, <1>3, <3>1
      <3>2. CASE j # i
        <4>1. import'[j] = import[j] /\ ImportFits(import[j])
          BY <1>2, <3>2 DEF RevenueInv, ImportsFit
        <4>2. ASSUME NEW ref, ref \in Refs(entries) PROVE ref \in Refs(entries')
          BY <1>1, <4>2, RefsIs
        <4> QED BY <4>1, <4>2 DEF ImportFits
      <3> QED BY <3>1, <3>2
    <2> QED BY <2>1 DEF ImportsFit, ImportFits, Refs, Ref
  <1>9. FlushedApart'
    <2> SUFFICES ASSUME NEW k \in Importers, import'[k].pc = "commit"
                 PROVE  /\ ~Twins(import'[k].new) /\ ~Overlap(import'[k].new, entries')
                        /\ \A j \in Importers \ {k} : import'[j].pc = "commit" =>
                              ~Overlap(import'[k].new, import'[j].new)
      BY DEF FlushedApart, Flushed, Twins, Overlap, Refs
    <2>1. k # i /\ import'[k] = import[k] /\ Flushed(k)
      BY <1>2, <1>3 DEF Flushed
    <2>2. /\ ~Twins(import[k].new) /\ ~Overlap(import[k].new, entries)
          /\ \A j \in Importers \ {k} : Flushed(j) => ~Overlap(import[k].new, import[j].new)
      BY <2>1 DEF RevenueInv, FlushedApart
    <2>3. ~Overlap(import[k].new, entries')
      <3>1. ~Overlap(import[k].new, new)
        BY <1>1, <2>1, <2>2 DEF new
      <3> QED BY <1>1, <2>2, <3>1, OverlapIs
    <2>4. ASSUME NEW j \in Importers \ {k}, import'[j].pc = "commit"
          PROVE  ~Overlap(import[k].new, import'[j].new)
      <3>1. j # i /\ import'[j] = import[j] /\ Flushed(j)
        BY <1>2, <1>3, <2>4 DEF Flushed
      <3> QED BY <2>2, <3>1
    <2> QED BY <2>1, <2>2, <2>3, <2>4
  <1>10. BesideSeen'
    <2> SUFFICES ASSUME NEW k \in Importers
                 PROVE  /\ \A j \in Importers \ {k} :
                              Overlap(import'[k].file, import'[j].file) => import'[k].beside
                        /\ Overlap(import'[k].new, entries') => import'[k].beside
      BY DEF BesideSeen, Overlap, Refs
    <2>1. CASE k = i
      BY <1>2, <1>3, <2>1, OverlapIs
    <2>2. CASE k # i
      <3>1. import'[k] = import[k] /\ ImportFits(import[k])
        BY <1>2, <2>2 DEF RevenueInv, ImportsFit
      <3>2. ASSUME NEW j \in Importers \ {k}, Overlap(import'[k].file, import'[j].file)
            PROVE  import[k].beside
        <4>1. j # i
          BY <1>2, <1>3, <3>2, OverlapIs
        <4>2. Overlap(import[k].file, import[j].file)
          BY <1>2, <3>1, <3>2, <4>1
        <4> QED BY <4>2 DEF RevenueInv, BesideSeen
      <3>3. ASSUME Overlap(import[k].new, entries')
            PROVE  import[k].beside
        <4>1. PICK p \in import[k].new, q \in entries' : Ref(p) = Ref(q)
          BY <3>3, OverlapIs
        <4>2. CASE q \in entries
          <5>1. Overlap(import[k].new, entries)
            BY <4>1, <4>2, OverlapIs
          <5> QED BY <5>1 DEF RevenueInv, BesideSeen
        <4>3. CASE q \in new
          <5>1. p \in import[k].file /\ q \in import[i].file
            BY <1>5, <3>1, <4>3 DEF ImportFits
          <5>2. Overlap(import[k].file, import[i].file)
            BY <4>1, <5>1, OverlapIs
          <5> QED BY <2>2, <5>2 DEF RevenueInv, BesideSeen
        <4> QED BY <1>1, <4>1, <4>2, <4>3
      <3> QED BY <3>1, <3>2, <3>3
    <2> QED BY <2>1, <2>2
  <1>11. EntriesFit'
    <2>1. /\ IsFiniteSet(entries) /\ ~Twins(entries)
          /\ Refs(entries) = Refs({row \in uploaded : row[1] \in Readable})
      BY DEF RevenueInv, EntriesFit
    <2>2. IsFiniteSet(entries')
      BY <1>1, <1>5, <1>6, <2>1, FS_Subset, FS_Union
    <2>3. ~Twins(entries')
      <3> SUFFICES ASSUME NEW p \in entries', NEW q \in entries', p # q, Ref(p) = Ref(q)
                   PROVE  FALSE
        BY DEF Twins, Ref
      <3>1. ~(p \in entries /\ q \in entries)
        BY <2>1 DEF Twins
      <3>2. ~(p \in new /\ q \in new)
        BY <1>4 DEF Twins
      <3>3. ~(p \in new /\ q \in entries) /\ ~(p \in entries /\ q \in new)
        BY <1>4, OverlapIs
      <3> QED BY <1>1, <3>1, <3>2, <3>3
    <2>4. ASSUME NEW ref, \E p \in entries' : Ref(p) = ref
          PROVE  \E p \in uploaded' : p[1] \in Readable /\ Ref(p) = ref
      <3>1. PICK p \in entries' : Ref(p) = ref
        BY <2>4
      <3>2. CASE p \in entries
        <4>1. ref \in Refs({row \in uploaded : row[1] \in Readable})
          BY <2>1, <3>1, <3>2, RefsIs
        <4>2. PICK q \in {row \in uploaded : row[1] \in Readable} : Ref(q) = ref
          BY <4>1, RefsIs
        <4> QED BY <1>1, <4>2
      <3>3. CASE p \in new
        BY <1>1, <1>5, <3>1, <3>3
      <3> QED BY <1>1, <3>2, <3>3
    <2>5. ASSUME NEW ref, \E p \in uploaded' : p[1] \in Readable /\ Ref(p) = ref
          PROVE  \E p \in entries' : Ref(p) = ref
      <3>1. PICK p \in uploaded' : p[1] \in Readable /\ Ref(p) = ref
        BY <2>5
      <3>2. CASE p \in uploaded
        <4>1. ref \in Refs({row \in uploaded : row[1] \in Readable})
          BY <3>1, <3>2, RefsIs
        <4>2. \E q \in entries : Ref(q) = ref
          BY <2>1, <4>1, RefsIs
        <4> QED BY <1>1, <4>2
      <3>3. CASE p \in import[i].file
        <4>1. ref \in Refs(new) \/ ref \in Refs(entries)
          BY <1>5, <3>1, <3>3
        <4> QED BY <1>1, <4>1, RefsIs
      <3> QED BY <1>1, <3>1, <3>2, <3>3
    <2> DEFINE readable == {row \in uploaded' : row[1] \in Readable}
    <2>6. Refs(entries') = Refs(readable)
      <3>1. ASSUME NEW ref PROVE ref \in Refs(entries') <=> ref \in Refs(readable)
        BY <2>4, <2>5, RefsIs
      <3> QED BY <3>1 DEF Refs
    <2>7. readable = {row \in uploaded' : row[1] \in Readable}
      OBVIOUS
    <2> QED BY <2>2, <2>3, <2>6 DEF EntriesFit, Twins, Refs
  <1> QED BY <1>7, <1>8, <1>9, <1>10, <1>11 DEF RevenueInv

(* Every step of an import keeps the invariant.                              *)
LEMMA ImportStepKeeps ==
    ASSUME RevenueInv, NEW i \in Importers, ImportStep(i)
    PROVE  RevenueInv'
  BY StartKeeps, ReadRowKeeps, FlushKeeps, DropKeeps, CommitKeeps DEF ImportStep

(* ... and so does whatever leaves the imports alone.                        *)
LEMMA RevenueStays ==
    ASSUME RevenueInv, UNCHANGED revenue PROVE RevenueInv'
  BY DEF revenue, RevenueInv, RevenueTypeOK, ImportsFit, ImportFits, FlushedApart, Flushed,
         BesideSeen, EntriesFit, Twins, Overlap, Refs

LEMMA InitRevenue ==
    ASSUME RevenueInit PROVE RevenueInv
  <1>1. \A i \in Importers : import[i] = NoImport
    BY DEF RevenueInit
  <1>2. entries = {} /\ uploaded = {}
    BY DEF RevenueInit
  <1>3. NoImport.pc = "idle" /\ NoImport.file = {} /\ NoImport.new = {}
    BY DEF NoImport
  <1>4. RevenueTypeOK /\ ImportsFit /\ FlushedApart
    BY <1>1, <1>2, <1>3, NoImportFits
       DEF RevenueInit, RevenueTypeOK, ImportsFit, FlushedApart, Flushed
  <1>5. BesideSeen
    BY <1>1, <1>3, OverlapIs DEF BesideSeen
  <1>6. EntriesFit
    BY <1>2, FS_EmptySet DEF EntriesFit, Twins, Refs
  <1> QED BY <1>4, <1>5, <1>6 DEF RevenueInv

-----------------------------------------------------------------------------
(* The generations *)

(* A generation that is not under way has nothing, one whose mail is on its  *)
(* way commits next, and what it found of a report is still there.           *)
GenerationFits(t) ==
    /\ t.pc = "idle" => t = NoGeneration
    /\ t.mail # "none" => t.pc = "commit"
    /\ t.found \/ t.same => report # None
    /\ t.pc \in {"revenue", "select"} => ~t.same

GenerationsFit == \A g \in Generators : GenerationFits(gen[g])

MailsBounded == deliveries + Cardinality(Mailing) <= MaxMails

GenTypeOK ==
    /\ history \in Seq(Counts \cup {None}) /\ Len(history) <= MaxHours
    /\ report \in Report \cup {None}
    /\ gen \in [Generators -> Generation]
    /\ deliveries \in 0 .. MaxMails /\ mails \in Nat
    /\ mailed \in Content
    /\ faults \in 0 .. MaxFaults
    /\ overlapped \in BOOLEAN

MailInv == GenTypeOK /\ GenerationsFit /\ MailsBounded /\ MailsAreOnRecord

(* The bounds of the model.                                                  *)
LEMMA Bounds ==
    /\ MaxHours \in Nat /\ MaxBusyHours \in Nat /\ MaxBusyHours <= MaxHours
    /\ MaxMails \in Nat /\ MaxFaults \in Nat
    /\ Counts \subseteq Nat /\ Max(Counts) \in Counts
    /\ IsFiniteSet(Generators)
  <1>1. PICK top \in Counts : \A c \in Counts : c <= top
    BY ReportsAssumption
  <1>2. Counts \subseteq Nat
    BY ReportsAssumption
  <1>3. \A c \in Counts : top >= c
    BY <1>1, <1>2
  <1>4. Max(Counts) \in Counts
    BY <1>3 DEF Max
  <1> QED BY <1>2, <1>4, ReportsAssumption

LEMMA MailingFinite ==
    /\ IsFiniteSet(Mailing) /\ Cardinality(Mailing) \in Nat
  BY Bounds, FS_Subset, FS_CardinalityType DEF Mailing

LEMMA NoGenerationFits ==
    /\ NoGeneration \in Generation /\ Nothing \in Content
    /\ NoGeneration.pc = "idle" /\ NoGeneration.mail = "none"
    /\ NoGeneration.found = FALSE /\ NoGeneration.same = FALSE
    /\ NoGeneration.built = Nothing /\ Nothing.hours = 0 /\ Nothing.counted = {}
  <1>1. Nothing \in Content
    BY Bounds DEF Nothing, Content
  <1> QED BY <1>1 DEF NoGeneration, Generation, Nothing

(* A generation's step that sends no mail and has none on its way.           *)
LEMMA QuietStep ==
    ASSUME MailInv, NEW g \in Generators, NEW t \in Generation,
           gen' = [gen EXCEPT ![g] = t], GenerationFits(t),
           t.mail = "none", gen[g].mail = "none",
           UNCHANGED <<history, report, deliveries, mails, faults>>,
           mailed' \in Content, overlapped' \in BOOLEAN
    PROVE  MailInv'
  <1>1. gen \in [Generators -> Generation]
    BY DEF MailInv, GenTypeOK
  <1>2. gen'[g] = t /\ \A o \in Generators \ {g} : gen'[o] = gen[o]
    BY <1>1
  <1>3. Mailing' = Mailing
    BY <1>2 DEF Mailing
  <1>4. GenTypeOK'
    BY <1>1 DEF MailInv, GenTypeOK
  <1>5. GenerationsFit'
    BY <1>2 DEF MailInv, GenerationsFit, GenerationFits
  <1>6. MailsBounded' /\ MailsAreOnRecord'
    BY <1>3 DEF MailInv, MailsBounded, MailsAreOnRecord
  <1> QED BY <1>4, <1>5, <1>6 DEF MailInv

(* generate, up to what the builder reads of the followers.                  *)
LEMMA GenerateMails ==
    ASSUME MailInv, NEW g \in Generators, NEW deliver \in BOOLEAN, Generate(g, deliver)
    PROVE  MailInv'
  <1> DEFINE built == [Nothing EXCEPT !.hours = Len(history)]
             t == [NoGeneration EXCEPT !.pc = "revenue", !.deliver = deliver, !.built = built]
  <1>1. Len(history) \in 0 .. MaxBusyHours
    BY Bounds DEF Generate, Busy, MailInv, GenTypeOK
  <1>2. built \in Content
    BY <1>1, NoGenerationFits DEF Content
  <1>3. gen' = [gen EXCEPT ![g] = t]
    BY NoGenerationFits DEF Generate, Set
  <1>4. t \in Generation /\ t.pc = "revenue" /\ t.mail = "none"
        /\ t.found = FALSE /\ t.same = FALSE
    BY <1>2, NoGenerationFits DEF Generation
  <1>5. gen[g].mail = "none"
    BY NoGenerationFits DEF Generate, Is, MailInv, GenerationsFit, GenerationFits
  <1>6. GenerationFits(t)
    BY <1>4 DEF GenerationFits
  <1>7. /\ UNCHANGED <<history, report, deliveries, mails, faults>>
        /\ mailed' \in Content /\ overlapped' \in BOOLEAN
    BY NoGenerationFits DEF Generate, MailInv, GenTypeOK
  <1> HIDE DEF t
  <1> QED BY <1>3, <1>4, <1>5, <1>6, <1>7, QuietStep

(* The revenue is read, the report looked up, or stored.                     *)
LEMMA StoringMails ==
    ASSUME MailInv, RevenueInv, NEW g \in Generators,
           ReadRevenue(g) \/ SelectReport(g) \/ FlushReport(g) \/ AlreadyStored(g)
    PROVE  MailInv'
  <1>1. /\ gen[g] \in Generation /\ GenerationFits(gen[g])
        /\ gen[g].pc \in {"revenue", "select", "flush"}
        /\ UNCHANGED <<history, report, deliveries, mails, faults>>
        /\ mailed' \in Content /\ overlapped' \in BOOLEAN
    BY DEF ReadRevenue, SelectReport, FlushReport, AlreadyStored, Is, MailInv, GenTypeOK,
           GenerationsFit, delivery
  <1>2. gen[g].mail = "none"
    BY <1>1 DEF GenerationFits
  <1>3. CASE ReadRevenue(g)
    <2> DEFINE built == [gen[g].built EXCEPT !.counted = entries]
               t == [gen[g] EXCEPT !.pc = "select", !.built = built]
    <2>1. gen[g].built \in Content /\ entries \subseteq Rows
      BY <1>1 DEF Generation, RevenueInv, RevenueTypeOK
    <2>2. built \in Content
      BY <2>1 DEF Content
    <2>3. gen' = [gen EXCEPT ![g] = t]
      BY <1>3 DEF ReadRevenue, Set
    <2>4. t \in Generation /\ t.pc = "select" /\ t.mail = gen[g].mail
          /\ t.found = gen[g].found /\ t.same = gen[g].same
      BY <1>1, <2>2 DEF Generation
    <2> HIDE DEF t
    <2>5. gen[g].pc = "revenue"
      BY <1>3 DEF ReadRevenue, Is
    <2>6. GenerationFits(t)
      BY <1>1, <1>2, <2>4, <2>5 DEF GenerationFits
    <2> QED BY <1>1, <1>2, <2>3, <2>4, <2>6, QuietStep
  <1>4. CASE SelectReport(g)
    <2> DEFINE pc == After("select", gen[g].deliver)
               found == report # None
               same == IF report = None THEN FALSE ELSE report.content = gen[g].built
               t == [gen[g] EXCEPT !.pc = pc, !.found = found, !.same = same]
    <2>1. gen' = [gen EXCEPT ![g] = t]
      BY <1>4 DEF SelectReport, Set
    <2>2. pc = "flush" /\ found \in BOOLEAN /\ same \in BOOLEAN /\ (found \/ same => report # None)
      BY DEF After
    <2> HIDE DEF pc, found, same
    <2>3. t \in Generation /\ t.pc = "flush" /\ t.mail = gen[g].mail
          /\ t.found = found /\ t.same = same
      BY <1>1, <2>2 DEF Generation
    <2> HIDE DEF t
    <2>4. GenerationFits(t)
      BY <1>2, <2>2, <2>3 DEF GenerationFits
    <2> QED BY <1>1, <1>2, <2>1, <2>3, <2>4, QuietStep
  <1>5. CASE FlushReport(g)
    <2> DEFINE pc == After("flush", gen[g].deliver)
               t == [gen[g] EXCEPT !.pc = pc]
    <2>1. gen' = [gen EXCEPT ![g] = t]
      BY <1>5 DEF FlushReport, Set
    <2>2. pc \in {"mail", "commit"}
      BY DEF After
    <2> HIDE DEF pc
    <2>3. t \in Generation /\ t.pc = pc /\ t.mail = gen[g].mail
          /\ t.found = gen[g].found /\ t.same = gen[g].same
      BY <1>1, <2>2 DEF Generation
    <2> HIDE DEF t
    <2>4. GenerationFits(t)
      BY <1>1, <1>2, <2>2, <2>3 DEF GenerationFits
    <2> QED BY <1>1, <1>2, <2>1, <2>3, <2>4, QuietStep
  <1>6. CASE AlreadyStored(g)
    <2>1. gen' = [gen EXCEPT ![g] = NoGeneration] /\ GenerationFits(NoGeneration)
      BY <1>6, NoGenerationFits DEF AlreadyStored, Set, GenerationFits
    <2> QED BY <1>1, <1>2, <2>1, NoGenerationFits, QuietStep
  <1> QED BY <1>3, <1>4, <1>5, <1>6

(* The report is mailed: what reaches the server is on its way to a record.  *)
LEMMA MailMails ==
    ASSUME MailInv, NEW g \in Generators, Mail(g)
    PROVE  MailInv'
  <1>1. /\ gen \in [Generators -> Generation] /\ gen[g] \in Generation
        /\ GenerationFits(gen[g]) /\ gen[g].pc = "mail"
        /\ deliveries + Cardinality(Mailing) < MaxMails
        /\ UNCHANGED <<history, report, deliveries, mailed, faults, overlapped>>
    BY DEF Mail, Is, MailInv, GenTypeOK, GenerationsFit
  <1>2. PICK outcome \in {"SKIPPED", "SENT", "FAILED"} :
          /\ mails' \in CASE outcome = "SENT"    -> {mails + 1}
                        [] outcome = "FAILED"  -> {mails, mails + 1}
                        [] outcome = "SKIPPED" -> {mails}
          /\ gen' = [gen EXCEPT ![g] = [gen[g] EXCEPT !.pc = After("mail", TRUE), !.mail = outcome]]
    BY DEF Mail, Set
  <1> DEFINE t == [gen[g] EXCEPT !.pc = "commit", !.mail = outcome]
  <1>3. gen' = [gen EXCEPT ![g] = t]
    BY <1>2 DEF After
  <1>4. /\ t \in Generation /\ t.pc = "commit" /\ t.mail = outcome
        /\ t.found = gen[g].found /\ t.same = gen[g].same
    BY <1>1 DEF Generation
  <1> HIDE DEF t
  <1>5. gen'[g] = t /\ \A o \in Generators \ {g} : gen'[o] = gen[o]
    BY <1>1, <1>3
  <1>6. g \notin Mailing
    BY <1>1 DEF Mailing, GenerationFits
  <1>7. GenerationsFit'
    BY <1>1, <1>4, <1>5 DEF MailInv, GenerationsFit, GenerationFits
  <1>8. mails \in Nat /\ deliveries \in Nat /\ faults \in Nat /\ MaxMails \in Nat
        /\ Cardinality(Mailing) \in Nat
    BY Bounds, MailingFinite DEF MailInv, GenTypeOK
  <1>9. mails <= deliveries + faults + Cardinality(Mailing)
    BY DEF MailInv, MailsAreOnRecord
  <1>10. mails' \in Nat
    BY <1>2, <1>8
  <1>11. GenTypeOK'
    BY <1>1, <1>3, <1>4, <1>10 DEF MailInv, GenTypeOK
  <1>12. CASE outcome = "SKIPPED"
    <2>1. Mailing' = Mailing /\ mails' = mails
      BY <1>2, <1>4, <1>5, <1>6, <1>12 DEF Mailing
    <2> QED BY <1>1, <1>7, <1>11, <2>1 DEF MailInv, MailsBounded, MailsAreOnRecord
  <1>13. CASE outcome # "SKIPPED"
    <2>1. Mailing' = Mailing \cup {g}
      BY <1>4, <1>5, <1>13 DEF Mailing
    <2>2. Cardinality(Mailing') = Cardinality(Mailing) + 1
      BY <1>6, <2>1, MailingFinite, FS_AddElement
    <2>3. mails' <= mails + 1
      BY <1>2, <1>8, <1>13
    <2>4. MailsBounded'
      BY <1>1, <1>8, <2>2 DEF MailsBounded
    <2>5. MailsAreOnRecord'
      BY <1>1, <1>8, <1>9, <1>10, <2>2, <2>3 DEF MailsAreOnRecord
    <2> QED BY <1>7, <1>11, <2>4, <2>5 DEF MailInv
  <1> QED BY <1>12, <1>13

(* What a mail leaves of those on their way when its generation is over.     *)
LEMMA MailingWithout ==
    ASSUME MailInv, NEW g \in Generators, gen' = [gen EXCEPT ![g] = NoGeneration]
    PROVE  /\ Mailing' = Mailing \ {g}
           /\ Cardinality(Mailing') \in Nat
           /\ g \in Mailing => Cardinality(Mailing) = Cardinality(Mailing') + 1
           /\ g \notin Mailing => Cardinality(Mailing) = Cardinality(Mailing')
  <1>1. gen'[g] = NoGeneration /\ \A o \in Generators \ {g} : gen'[o] = gen[o]
    BY DEF MailInv, GenTypeOK
  <1>2. Mailing' = Mailing \ {g}
    BY <1>1, NoGenerationFits DEF Mailing
  <1>3. CASE g \in Mailing
    <2>1. Cardinality(Mailing \ {g}) = Cardinality(Mailing) - 1 /\ IsFiniteSet(Mailing \ {g})
      BY <1>3, MailingFinite, FS_RemoveElement
    <2>2. Cardinality(Mailing \ {g}) \in Nat
      BY <2>1, FS_CardinalityType
    <2> QED BY <1>2, <1>3, <2>1, <2>2, MailingFinite
  <1>4. CASE g \notin Mailing
    <2>1. Mailing' = Mailing
      BY <1>2, <1>4
    <2> QED BY <1>2, <1>4, <2>1, MailingFinite
  <1> QED BY <1>2, <1>3, <1>4

(* The row a generation commits is a report.                                 *)
LEMMA StoredIsReport ==
    ASSUME MailInv, NEW g \in Generators
    PROVE  Stored(g) \in Report /\ Stored(g) # None
  <1>1. gen[g] \in Generation /\ GenerationFits(gen[g]) /\ report \in Report \cup {None}
    BY DEF MailInv, GenTypeOK, GenerationsFit
  <1>2. gen[g].same => report.content \in Content
    BY <1>1 DEF GenerationFits, Report
  <1>3. gen[g].found => report.status \in {"GENERATED", "DELIVERED", "DELIVERY_FAILED"}
    BY <1>1 DEF GenerationFits, Report
  <1>4. gen[g].built \in Content
    BY <1>1 DEF Generation
  <1>5. Status({"SENT", gen[g].mail}) \in {"GENERATED", "DELIVERED", "DELIVERY_FAILED"}
    BY DEF Status
  <1> DEFINE content == IF gen[g].same THEN report.content ELSE gen[g].built
             status == IF gen[g].deliver THEN Status({"SENT", gen[g].mail})
                       ELSE IF gen[g].found THEN report.status ELSE "GENERATED"
  <1>6. content \in Content /\ status \in {"GENERATED", "DELIVERED", "DELIVERY_FAILED"}
    BY <1>2, <1>3, <1>4, <1>5
  <1>7. Stored(g) = [content |-> content, status |-> status]
    BY DEF Stored
  <1> HIDE DEF content, status
  <1>8. Stored(g) \in Report
    BY <1>6, <1>7 DEF Report
  <1> QED BY <1>8, NoneIsNoReport

(* The report and its deliveries are committed.                              *)
LEMMA CommitMails ==
    ASSUME MailInv, NEW g \in Generators, CommitReport(g)
    PROVE  MailInv'
  <1>1. /\ gen \in [Generators -> Generation] /\ gen[g] \in Generation
        /\ gen' = [gen EXCEPT ![g] = NoGeneration]
        /\ report' = Stored(g)
        /\ deliveries' = deliveries + IF g \in Mailing THEN 1 ELSE 0
        /\ mailed' = IF gen[g].mail = "SENT" /\ ~overlapped THEN gen[g].built ELSE mailed
        /\ UNCHANGED <<history, mails, faults, overlapped>>
    BY DEF CommitReport, Set, MailInv, GenTypeOK
  <1>2. mails \in Nat /\ deliveries \in Nat /\ faults \in Nat /\ MaxMails \in Nat
        /\ Cardinality(Mailing) \in Nat
        /\ mails <= deliveries + faults + Cardinality(Mailing)
        /\ deliveries + Cardinality(Mailing) <= MaxMails
    BY Bounds, MailingFinite DEF MailInv, GenTypeOK, MailsAreOnRecord, MailsBounded
  <1>3. /\ Cardinality(Mailing') \in Nat /\ deliveries' \in Nat
        /\ deliveries' + Cardinality(Mailing') = deliveries + Cardinality(Mailing)
    <2>1. CASE g \in Mailing
      <3>1. deliveries' = deliveries + 1 /\ Cardinality(Mailing) = Cardinality(Mailing') + 1
            /\ Cardinality(Mailing') \in Nat
        BY <1>1, <2>1, MailingWithout
      <3> QED BY <1>2, <3>1
    <2>2. CASE g \notin Mailing
      <3>1. deliveries' = deliveries + 0 /\ Cardinality(Mailing) = Cardinality(Mailing')
            /\ Cardinality(Mailing') \in Nat
        BY <1>1, <2>2, MailingWithout
      <3> QED BY <1>2, <3>1
    <2> QED BY <2>1, <2>2
  <1>4. MailsBounded'
    BY <1>2, <1>3 DEF MailsBounded
  <1>5. MailsAreOnRecord'
    BY <1>1, <1>2, <1>3 DEF MailsAreOnRecord
  <1>6. GenerationsFit'
    <2>1. gen'[g] = NoGeneration /\ \A o \in Generators \ {g} : gen'[o] = gen[o]
      BY <1>1
    <2>2. report' # None
      BY <1>1, StoredIsReport
    <2> QED BY <2>1, <2>2, NoGenerationFits DEF MailInv, GenerationsFit, GenerationFits
  <1>7. GenTypeOK'
    <2>1. deliveries' \in 0 .. MaxMails
      BY <1>2, <1>3
    <2>2. gen[g].built \in Content /\ mailed \in Content
      BY <1>1 DEF Generation, MailInv, GenTypeOK
    <2>3. mailed' \in Content
      BY <1>1, <2>2
    <2>4. report' \in Report /\ gen' \in [Generators -> Generation]
      BY <1>1, StoredIsReport, NoGenerationFits
    <2> QED BY <1>1, <2>1, <2>3, <2>4 DEF MailInv, GenTypeOK
  <1> QED BY <1>4, <1>5, <1>6, <1>7 DEF MailInv

(* A generation dies, with its mail perhaps on its way.                      *)
LEMMA DieMails ==
    ASSUME MailInv, NEW g \in Generators, Die(g)
    PROVE  MailInv'
  <1>1. /\ gen \in [Generators -> Generation]
        /\ gen' = [gen EXCEPT ![g] = NoGeneration]
        /\ faults < MaxFaults /\ faults' = faults + 1
        /\ UNCHANGED <<history, report, deliveries, mails, mailed, overlapped>>
    BY DEF Die, Set, MailInv, GenTypeOK, delivery
  <1>2. mails \in Nat /\ deliveries \in Nat /\ faults \in Nat /\ MaxMails \in Nat /\ MaxFaults \in Nat
        /\ Cardinality(Mailing) \in Nat
        /\ mails <= deliveries + faults + Cardinality(Mailing)
        /\ deliveries + Cardinality(Mailing) <= MaxMails
    BY Bounds, MailingFinite DEF MailInv, GenTypeOK, MailsAreOnRecord, MailsBounded
  <1>3. /\ Cardinality(Mailing') \in Nat
        /\ \/ Cardinality(Mailing) = Cardinality(Mailing') + 1
           \/ Cardinality(Mailing) = Cardinality(Mailing')
    BY <1>1, MailingWithout
  <1>4. MailsBounded' /\ MailsAreOnRecord'
    BY <1>1, <1>2, <1>3 DEF MailsBounded, MailsAreOnRecord
  <1>5. GenerationsFit'
    <2>1. gen'[g] = NoGeneration /\ \A o \in Generators \ {g} : gen'[o] = gen[o]
      BY <1>1
    <2> QED BY <1>1, <2>1, NoGenerationFits DEF MailInv, GenerationsFit, GenerationFits
  <1>6. GenTypeOK'
    <2>1. faults' \in 0 .. MaxFaults
      BY <1>1, <1>2
    <2>2. gen' \in [Generators -> Generation]
      BY <1>1, NoGenerationFits
    <2> QED BY <1>1, <2>1, <2>2 DEF MailInv, GenTypeOK
  <1> QED BY <1>4, <1>5, <1>6 DEF MailInv

(* An hour goes by.                                                          *)
LEMMA HourMails ==
    ASSUME MailInv, Hour PROVE MailInv' /\ Len(history') = Len(history) + 1
  <1>1. PICK c \in Counts \cup {None} : history' = Append(history, c)
    BY Bounds DEF Hour
  <1>2. history \in Seq(Counts \cup {None}) /\ Len(history) <= MaxHours
        /\ Len(history) < MaxHours
    BY Bounds DEF Hour, MailInv, GenTypeOK
  <1>3. history' \in Seq(Counts \cup {None}) /\ Len(history') = Len(history) + 1
    BY <1>1, <1>2
  <1>4. Len(history') <= MaxHours
    BY <1>2, <1>3, Bounds
  <1>5. UNCHANGED <<report, gen, deliveries, mails, mailed, faults, overlapped>>
    BY DEF Hour, delivery
  <1> QED BY <1>3, <1>4, <1>5 DEF MailInv, GenTypeOK, GenerationsFit, GenerationFits,
            MailsBounded, MailsAreOnRecord, Mailing

(* The invariant, as far as records of mails go.                             *)
LEMMA InitMails == Init => MailInv
  <1> SUFFICES ASSUME Init PROVE MailInv
    OBVIOUS
  <1>1. \A g \in Generators : gen[g] = NoGeneration
    BY DEF Init
  <1>2. Mailing = {}
    BY <1>1, NoGenerationFits DEF Mailing
  <1>3. Cardinality(Mailing) = 0
    BY <1>2, FS_EmptySet
  <1>4. history \in Seq(Counts \cup {None}) /\ Len(history) = 0
    BY DEF Init
  <1>5. GenTypeOK
    <2>1. gen \in [Generators -> Generation] /\ mailed \in Content
      BY NoGenerationFits DEF Init
    <2>2. deliveries = 0 /\ faults = 0 /\ mails = 0 /\ overlapped = FALSE /\ report = None
      BY DEF Init
    <2>3. deliveries \in 0 .. MaxMails /\ mails \in Nat /\ faults \in 0 .. MaxFaults
      BY <2>2, Bounds
    <2>4. Len(history) <= MaxHours
      BY <1>4, Bounds
    <2>5. report \in Report \cup {None} /\ overlapped \in BOOLEAN
      BY <2>2
    <2> QED BY <1>4, <2>1, <2>3, <2>4, <2>5 DEF GenTypeOK
  <1>6. GenerationsFit
    BY <1>1, NoGenerationFits DEF GenerationsFit, GenerationFits
  <1> QED BY <1>3, <1>5, <1>6, Bounds DEF Init, MailInv, MailsBounded, MailsAreOnRecord

LEMMA MailStep ==
    ASSUME MailInv, RevenueInv, [Next]_vars PROVE MailInv'
  <1>1. CASE ImportRevenue \/ UNCHANGED vars
    <2>1. UNCHANGED <<history, report, gen, deliveries, mails, mailed, faults, overlapped>>
      BY <1>1 DEF ImportRevenue, vars, delivery
    <2> QED BY <2>1 DEF MailInv, GenTypeOK, GenerationsFit, GenerationFits,
              MailsBounded, MailsAreOnRecord, Mailing
  <1>2. ASSUME NEW g \in Generators, Step(g) PROVE MailInv'
    BY <1>2, GenerateMails, StoringMails, MailMails, CommitMails, DieMails DEF Step
  <1> QED BY <1>1, <1>2, HourMails DEF Next

(* The imports of revenue, among the steps of reports.                       *)
LEMMA RevenueStep ==
    ASSUME RevenueInv, [Next]_vars PROVE RevenueInv'
  <1>1. CASE ImportRevenue
    <2>1. PICK i \in Importers : ImportStep(i)
      BY <1>1 DEF ImportRevenue
    <2> QED BY <2>1, ImportStepKeeps
  <1>2. CASE Hour \/ (\E g \in Generators : Step(g)) \/ UNCHANGED vars
    <2>1. UNCHANGED revenue
      BY <1>2 DEF Hour, Step, Generate, ReadRevenue, SelectReport, FlushReport, AlreadyStored,
                  Mail, CommitReport, Die, vars
    <2> QED BY <2>1, RevenueStays
  <1> QED BY <1>1, <1>2 DEF Next

LEMMA Invariance == Spec => [](RevenueInv /\ MailInv)
  <1>1. Init => RevenueInv /\ MailInv
    BY InitRevenue, InitMails DEF Init
  <1>2. (RevenueInv /\ MailInv) /\ [Next]_vars => (RevenueInv /\ MailInv)'
    BY RevenueStep, MailStep
  <1> QED BY <1>1, <1>2, PTL DEF Spec

-----------------------------------------------------------------------------
(* What the report says *)

(* Nothing says more than is there to be read.                               *)
ReadBefore(content) == content.hours <= Len(history) /\ content.counted \subseteq entries

Current ==
    /\ report # None => ReadBefore(report.content)
    /\ \A g \in Generators : gen[g].pc # "idle" => ReadBefore(gen[g].built)

(* A generation on its own has read at least what the report says, and when  *)
(* it found the report to say the same, the report still does.               *)
AheadOf(t) ==
    /\ t.pc # "idle" /\ report # None =>
          /\ report.content.hours <= t.built.hours
          /\ t.pc # "revenue" => report.content.counted \subseteq t.built.counted
    /\ t.same => report.content = t.built

Alone ==
    IF overlapped THEN mailed = Nothing
    ELSE /\ \A g, o \in Generators : gen[g].pc # "idle" /\ gen[o].pc # "idle" => g = o
         /\ \A g \in Generators : AheadOf(gen[g])

ContentInv == Current /\ Alone /\ ReportHoldsWhatWasMailed

(* A generation's step that leaves the report as it is.                      *)
LEMMA ReadingStep ==
    ASSUME MailInv, ContentInv, NEW g \in Generators, NEW t,
           gen' = [gen EXCEPT ![g] = t],
           t.pc # "idle" => gen[g].pc # "idle" /\ ReadBefore(t.built),
           ~overlapped => AheadOf(t),
           UNCHANGED <<history, revenue, report, mailed, overlapped>>
    PROVE  ContentInv'
  <1>1. gen'[g] = t /\ \A o \in Generators \ {g} : gen'[o] = gen[o]
    BY DEF MailInv, GenTypeOK
  <1>2. history' = history /\ entries' = entries /\ report' = report
        /\ mailed' = mailed /\ overlapped' = overlapped
    BY DEF revenue
  <1>3. Current'
    BY <1>1, <1>2 DEF ContentInv, Current, ReadBefore
  <1>4. Alone'
    <2>1. ASSUME ~overlapped
          PROVE  /\ \A p, o \in Generators : gen'[p].pc # "idle" /\ gen'[o].pc # "idle" => p = o
                 /\ \A o \in Generators : AheadOf(gen'[o])
      <3>1. \A o \in Generators : gen'[o].pc # "idle" => gen[o].pc # "idle"
        BY <1>1
      <3>2. \A o \in Generators : AheadOf(gen'[o])
        BY <1>1, <2>1 DEF ContentInv, Alone
      <3> QED BY <2>1, <3>1, <3>2 DEF ContentInv, Alone
    <2> QED BY <1>2, <2>1 DEF ContentInv, Alone, AheadOf
  <1>5. ReportHoldsWhatWasMailed'
    BY <1>2 DEF ContentInv, ReportHoldsWhatWasMailed, Within
  <1> QED BY <1>3, <1>4, <1>5 DEF ContentInv

(* A generation begins: alone, or nothing more is said of what was mailed.   *)
LEMMA GenerateReads ==
    ASSUME MailInv, ContentInv, NEW g \in Generators, NEW deliver \in BOOLEAN,
           Generate(g, deliver)
    PROVE  ContentInv'
  <1> DEFINE built == [Nothing EXCEPT !.hours = Len(history)]
             t == [NoGeneration EXCEPT !.pc = "revenue", !.deliver = deliver, !.built = built]
  <1>1. Len(history) \in 0 .. MaxBusyHours
    BY Bounds DEF Generate, Busy, MailInv, GenTypeOK
  <1>2. built \in Content /\ built.hours = Len(history) /\ built.counted = {}
    BY <1>1, NoGenerationFits DEF Content
  <1>3. gen' = [gen EXCEPT ![g] = t]
    BY NoGenerationFits DEF Generate, Set
  <1> HIDE DEF built
  <1>4. t.pc = "revenue" /\ t.same = FALSE /\ t.built = built
    BY <1>2, NoGenerationFits DEF Generation
  <1> HIDE DEF t
  <1>5. /\ gen[g].pc = "idle"
        /\ history' = history /\ entries' = entries /\ report' = report
        /\ overlapped' = (overlapped \/ \E o \in Generators : gen[o].pc # "idle")
        /\ mailed' = IF overlapped' THEN Nothing ELSE mailed
    BY DEF Generate, Is, revenue
  <1>6. gen'[g] = t /\ \A o \in Generators \ {g} : gen'[o] = gen[o]
    BY <1>3 DEF MailInv, GenTypeOK
  <1>7. Current'
    <2>1. ReadBefore(t.built)
      BY <1>1, <1>2, <1>4 DEF ReadBefore
    <2> QED BY <1>5, <1>6, <2>1 DEF ContentInv, Current, ReadBefore
  <1>8. Alone'
    <2>1. CASE overlapped'
      BY <1>5, <2>1 DEF Alone
    <2>2. CASE ~overlapped'
      <3>1. ~overlapped /\ \A o \in Generators : gen[o].pc = "idle"
        BY <1>5, <2>2
      <3>2. \A o \in Generators \ {g} : gen'[o].pc = "idle" /\ AheadOf(gen[o])
        BY <1>6, <3>1 DEF ContentInv, Alone
      <3>3. report # None => report.content.hours <= t.built.hours
        BY <1>2, <1>4 DEF ContentInv, Current, ReadBefore
      <3>4. AheadOf(t)
        BY <1>4, <3>3 DEF AheadOf
      <3>5. \A o \in Generators : AheadOf(gen'[o])
        BY <1>6, <3>2, <3>4
      <3>6. \A p, o \in Generators : gen'[p].pc # "idle" /\ gen'[o].pc # "idle" => p = o
        BY <3>2
      <3> QED BY <1>5, <2>2, <3>5, <3>6 DEF Alone, AheadOf
    <2> QED BY <2>1, <2>2
  <1>9. ReportHoldsWhatWasMailed'
    BY <1>5 DEF ContentInv, ReportHoldsWhatWasMailed, Within
  <1> QED BY <1>7, <1>8, <1>9 DEF ContentInv

(* The builder reads the revenue, the report is looked up and stored.        *)
LEMMA StoringReads ==
    ASSUME MailInv, ContentInv, NEW g \in Generators,
           \/ ReadRevenue(g) \/ SelectReport(g) \/ FlushReport(g) \/ AlreadyStored(g)
           \/ Mail(g) \/ Die(g)
    PROVE  ContentInv'
  <1>1. /\ gen[g] \in Generation /\ GenerationFits(gen[g]) /\ gen[g].pc # "idle"
        /\ UNCHANGED <<history, revenue, report, mailed, overlapped>>
    BY DEF ReadRevenue, SelectReport, FlushReport, AlreadyStored, Mail, Die, Is,
           MailInv, GenTypeOK, GenerationsFit, delivery
  <1>2. ReadBefore(gen[g].built) /\ (~overlapped => AheadOf(gen[g]))
    BY <1>1 DEF ContentInv, Current, Alone
  <1>3. AheadOf(NoGeneration)
    BY NoGenerationFits DEF AheadOf
  <1>4. CASE AlreadyStored(g) \/ Die(g)
    <2>1. gen' = [gen EXCEPT ![g] = NoGeneration]
      BY <1>4 DEF AlreadyStored, Die, Set
    <2> QED BY <1>1, <1>3, <2>1, NoGenerationFits, ReadingStep
  <1>5. CASE ReadRevenue(g)
    <2> DEFINE built == [gen[g].built EXCEPT !.counted = entries]
               t == [gen[g] EXCEPT !.pc = "select", !.built = built]
    <2>1. gen' = [gen EXCEPT ![g] = t]
      BY <1>5 DEF ReadRevenue, Set
    <2>2. built.hours = gen[g].built.hours /\ built.counted = entries
      BY <1>1 DEF Generation, Content
    <2> HIDE DEF built
    <2>3. t.pc = "select" /\ t.built = built /\ t.same = gen[g].same
      BY <1>1 DEF Generation
    <2> HIDE DEF t
    <2>4. gen[g].pc = "revenue"
      BY <1>5 DEF ReadRevenue, Is
    <2>5. ReadBefore(t.built)
      BY <1>2, <2>2, <2>3 DEF ReadBefore
    <2>6. ~t.same
      BY <1>1, <2>3, <2>4 DEF GenerationFits
    <2>7. report # None => report.content.counted \subseteq built.counted
      BY <2>2 DEF ContentInv, Current, ReadBefore
    <2>8. AheadOf(gen[g]) => AheadOf(t)
      BY <1>1, <2>2, <2>3, <2>6, <2>7 DEF AheadOf
    <2> QED BY <1>1, <1>2, <2>1, <2>5, <2>8, ReadingStep
  <1>6. CASE SelectReport(g)
    <2> DEFINE pc == After("select", gen[g].deliver)
               found == report # None
               same == IF report = None THEN FALSE ELSE report.content = gen[g].built
               t == [gen[g] EXCEPT !.pc = pc, !.found = found, !.same = same]
    <2>1. gen' = [gen EXCEPT ![g] = t]
      BY <1>6 DEF SelectReport, Set
    <2>2. pc = "flush" /\ (same => report.content = gen[g].built)
      BY DEF After
    <2> HIDE DEF pc, found, same
    <2>3. t.pc = "flush" /\ t.same = same /\ t.built = gen[g].built
      BY <1>1, <2>2 DEF Generation
    <2> HIDE DEF t
    <2>4. gen[g].pc = "select"
      BY <1>6 DEF SelectReport, Is
    <2>5. AheadOf(gen[g]) => AheadOf(t)
      BY <2>2, <2>3, <2>4 DEF AheadOf
    <2> QED BY <1>1, <1>2, <2>1, <2>3, <2>5, ReadingStep
  <1>7. CASE FlushReport(g)
    <2> DEFINE pc == After("flush", gen[g].deliver)
               t == [gen[g] EXCEPT !.pc = pc]
    <2>1. gen' = [gen EXCEPT ![g] = t]
      BY <1>7 DEF FlushReport, Set
    <2>2. pc \in {"mail", "commit"}
      BY DEF After
    <2> HIDE DEF pc
    <2>3. t.pc = pc /\ t.same = gen[g].same /\ t.built = gen[g].built
      BY <1>1 DEF Generation
    <2> HIDE DEF t
    <2>4. gen[g].pc = "flush"
      BY <1>7 DEF FlushReport, Is
    <2>5. AheadOf(gen[g]) => AheadOf(t)
      BY <2>2, <2>3, <2>4 DEF AheadOf
    <2> QED BY <1>1, <1>2, <2>1, <2>3, <2>5, ReadingStep
  <1>8. CASE Mail(g)
    <2>1. PICK outcome :
            gen' = [gen EXCEPT ![g] = [gen[g] EXCEPT !.pc = After("mail", TRUE), !.mail = outcome]]
      BY <1>8 DEF Mail, Set
    <2> DEFINE t == [gen[g] EXCEPT !.pc = "commit", !.mail = outcome]
    <2>2. gen' = [gen EXCEPT ![g] = t]
      BY <2>1 DEF After
    <2>3. t.pc = "commit" /\ t.same = gen[g].same /\ t.built = gen[g].built
      BY <1>1 DEF Generation
    <2> HIDE DEF t
    <2>4. gen[g].pc = "mail"
      BY <1>8 DEF Mail, Is
    <2>5. AheadOf(gen[g]) => AheadOf(t)
      BY <2>3, <2>4 DEF AheadOf
    <2> QED BY <1>1, <1>2, <2>2, <2>3, <2>5, ReadingStep
  <1> QED BY <1>4, <1>5, <1>6, <1>7, <1>8

(* The report is committed: on its own, a generation has read at least what  *)
(* was mailed before.                                                        *)
LEMMA CommitReads ==
    ASSUME MailInv, ContentInv, NEW g \in Generators, CommitReport(g)
    PROVE  ContentInv'
  <1>1. /\ gen[g] \in Generation /\ GenerationFits(gen[g]) /\ gen[g].pc = "commit"
        /\ gen' = [gen EXCEPT ![g] = NoGeneration]
        /\ report' = Stored(g)
        /\ mailed' = IF gen[g].mail = "SENT" /\ ~overlapped THEN gen[g].built ELSE mailed
        /\ history' = history /\ entries' = entries /\ overlapped' = overlapped
    BY DEF CommitReport, Set, Is, MailInv, GenTypeOK, GenerationsFit, revenue
  <1>2. gen'[g] = NoGeneration /\ \A o \in Generators \ {g} : gen'[o] = gen[o]
    BY <1>1 DEF MailInv, GenTypeOK
  <1>3. report' # None
        /\ report'.content = IF gen[g].same THEN report.content ELSE gen[g].built
    BY <1>1, StoredIsReport DEF Stored
  <1>4. ReadBefore(gen[g].built) /\ (report # None => ReadBefore(report.content))
    BY <1>1 DEF ContentInv, Current
  <1>5. Current'
    <2>1. ReadBefore(report'.content)
      BY <1>1, <1>3, <1>4 DEF GenerationFits
    <2> QED BY <1>1, <1>2, <2>1, NoGenerationFits DEF ContentInv, Current, ReadBefore
  <1>6. CASE overlapped
    <2>1. mailed = Nothing
      BY <1>6 DEF ContentInv, Alone
    <2>2. mailed' = Nothing
      BY <1>1, <1>6, <2>1
    <2>3. Alone' /\ ReportHoldsWhatWasMailed'
      BY <1>1, <1>6, <2>2 DEF Alone, ReportHoldsWhatWasMailed
    <2> QED BY <1>5, <2>3 DEF ContentInv
  <1>7. CASE ~overlapped
    <2>1. /\ AheadOf(gen[g])
          /\ \A o \in Generators \ {g} : gen[o].pc = "idle" /\ GenerationFits(gen[o])
      BY <1>1, <1>7 DEF ContentInv, Alone, MailInv, GenerationsFit
    <2>2. report'.content = gen[g].built
      BY <1>3, <2>1 DEF AheadOf
    <2>3. \A o \in Generators : gen'[o] = NoGeneration
      BY <1>2, <2>1 DEF GenerationFits
    <2>4. Alone'
      BY <1>1, <1>7, <2>3, NoGenerationFits DEF Alone, AheadOf
    <2>5. Within(gen[g].built, report'.content)
      <3>1. gen[g].built.hours \in Nat
        BY <1>1, Bounds DEF Generation, Content
      <3> QED BY <2>2, <3>1 DEF Within
    <2>6. mailed # Nothing => Within(mailed, report'.content)
      <3> SUFFICES ASSUME mailed # Nothing PROVE Within(mailed, gen[g].built)
        BY <2>2
      <3>1. report # None /\ Within(mailed, report.content)
        BY DEF ContentInv, ReportHoldsWhatWasMailed
      <3>2. /\ report.content.hours <= gen[g].built.hours
            /\ report.content.counted \subseteq gen[g].built.counted
        BY <1>1, <2>1, <3>1 DEF AheadOf
      <3>3. mailed.hours \in Nat /\ report.content.hours \in Nat /\ gen[g].built.hours \in Nat
        BY <1>1, <3>1, Bounds DEF MailInv, GenTypeOK, Generation, Report, Content
      <3> QED BY <3>1, <3>2, <3>3 DEF Within
    <2>7. ReportHoldsWhatWasMailed'
      <3> SUFFICES ASSUME mailed' # Nothing PROVE Within(mailed', report'.content)
        BY <1>3 DEF ReportHoldsWhatWasMailed, Within
      <3> QED BY <1>1, <2>5, <2>6
    <2> QED BY <1>5, <2>4, <2>7 DEF ContentInv
  <1> QED BY <1>6, <1>7

(* What is there to be read only grows.                                      *)
LEMMA WorldReads ==
    ASSUME MailInv, ContentInv, Hour \/ ImportRevenue
    PROVE  ContentInv'
  <1>1. /\ UNCHANGED <<report, gen, mailed, overlapped>>
        /\ Len(history) <= Len(history') /\ Len(history) \in Nat /\ Len(history') \in Nat
        /\ entries \subseteq entries'
    <2>1. Len(history) \in Nat
      BY DEF MailInv, GenTypeOK
    <2>2. CASE Hour
      BY <2>1, <2>2, HourMails DEF Hour, revenue, delivery
    <2>3. CASE ImportRevenue
      <3>1. PICK i \in Importers : ImportStep(i)
        BY <2>3 DEF ImportRevenue
      <3>2. entries \subseteq entries'
        BY <3>1 DEF ImportStep, StartImport, ReadRow, Flush, FlushFails, CommitImport, CrashImport
      <3> QED BY <2>1, <2>3, <3>2 DEF ImportRevenue, delivery
    <2> QED BY <2>2, <2>3
  <1>2. ASSUME NEW content \in Content,
               content.hours <= Len(history), content.counted \subseteq entries
        PROVE  content.hours <= Len(history') /\ content.counted \subseteq entries'
    <2>1. content.hours \in Nat
      BY Bounds DEF Content
    <2> QED BY <1>1, <1>2, <2>1
  <1>3. (report # None => report.content \in Content)
        /\ \A g \in Generators : gen[g].built \in Content
    BY DEF MailInv, GenTypeOK, Generation, Report
  <1>4. Current'
    BY <1>1, <1>2, <1>3 DEF ContentInv, Current, ReadBefore
  <1>5. Alone' /\ ReportHoldsWhatWasMailed'
    BY <1>1 DEF ContentInv, Alone, AheadOf, ReportHoldsWhatWasMailed, Within
  <1> QED BY <1>4, <1>5 DEF ContentInv

LEMMA ContentStep ==
    ASSUME MailInv, ContentInv, [Next]_vars PROVE ContentInv'
  <1>1. CASE UNCHANGED vars
    BY <1>1 DEF vars, revenue, delivery, ContentInv, Current, ReadBefore, Alone, AheadOf,
                ReportHoldsWhatWasMailed, Within
  <1>2. ASSUME NEW g \in Generators, Step(g) PROVE ContentInv'
    BY <1>2, GenerateReads, StoringReads, CommitReads DEF Step
  <1> QED BY <1>1, <1>2, WorldReads DEF Next

LEMMA InitContent == Init => ContentInv
  <1> SUFFICES ASSUME Init PROVE ContentInv
    OBVIOUS
  <1>1. \A g \in Generators : gen[g] = NoGeneration
    BY DEF Init
  <1> QED BY <1>1, NoGenerationFits
          DEF Init, ContentInv, Current, Alone, AheadOf, ReportHoldsWhatWasMailed

-----------------------------------------------------------------------------
(* What follows *)

(* One row per reference: the entries are as many as their references.       *)
LEMMA NoTwins ==
    ASSUME NEW rows, IsFiniteSet(rows), ~Twins(rows)
    PROVE  Cardinality(rows) = Cardinality(Refs(rows))
  <1> DEFINE f == [row \in rows |-> Ref(row)]
  <1>1. f \in Surjection(rows, Refs(rows))
    BY DEF Surjection, Refs
  <1>2. f \in Injection(rows, Refs(rows))
    BY DEF Injection, IsInjective, Refs, Twins
  <1> HIDE DEF f
  <1> QED BY <1>1, <1>2, FS_Surjection

(* Reports, imports and everything in hand keep their types; the mails that  *)
(* can have been sent are bounded by the records and the deaths allowed.     *)
THEOREM Typing == Spec => []TypeOK
  <1>1. RevenueInv /\ MailInv => TypeOK
    <2> SUFFICES ASSUME RevenueInv, MailInv PROVE TypeOK
      OBVIOUS
    <2>1. mails \in 0 .. MaxMails + MaxFaults
      BY Bounds, MailingFinite DEF MailInv, GenTypeOK, MailsBounded, MailsAreOnRecord
    <2> QED BY <2>1 DEF RevenueInv, MailInv, GenTypeOK, TypeOK
  <1> QED BY <1>1, Invariance, PTL

(* Whatever statements are uploaded, how often, in which layouts and by how  *)
(* many requests at once, and wherever imports die: the entries hold each    *)
(* readable earning of what was imported once per way of reading it.         *)
THEOREM EarningsAlwaysCountOnce == Spec => []EarningsCountOnce
  <1>1. RevenueInv => EarningsCountOnce
    <2> SUFFICES ASSUME RevenueInv PROVE EarningsCountOnce
      OBVIOUS
    <2>1. /\ Refs(entries) = Refs({row \in uploaded : row[1] \in Readable})
          /\ Cardinality(entries) = Cardinality(Refs(entries))
      BY NoTwins DEF RevenueInv, EntriesFit
    <2>2. \A i \in Importers : Flushed(i) => ~Overlap(import[i].new, entries)
      BY DEF RevenueInv, FlushedApart
    <2> QED BY <2>1, <2>2 DEF EarningsCountOnce
  <1> QED BY <1>1, Invariance, PTL

(* The flush of an import fails only when two rows of its statement read the *)
(* same, or when another request was importing one of them at the same time. *)
THEOREM SoundStatementsAlwaysGoIn == Spec => []SoundStatementsGoIn
  <1>1. RevenueInv => SoundStatementsGoIn
    <2> SUFFICES ASSUME RevenueInv, NEW i \in Importers, ~Unique(i)
                 PROVE  Twins(import[i].file) \/ import[i].beside
      BY DEF SoundStatementsGoIn
    <2>1. CASE Twins(import[i].new)
      BY <2>1 DEF Twins, RevenueInv, ImportsFit, ImportFits
    <2>2. CASE Overlap(import[i].new, entries)
      BY <2>2 DEF RevenueInv, BesideSeen
    <2> QED BY <2>1, <2>2 DEF Unique
  <1> QED BY <1>1, Invariance, PTL

(* Every message that reached the mail server is on record, on its way to a  *)
(* record, or was sent by a generation that died, for any number of          *)
(* generations that race for the report.                                     *)
THEOREM MailsAlwaysOnRecord == Spec => []MailsAreOnRecord
  <1>1. MailInv => MailsAreOnRecord
    BY DEF MailInv
  <1> QED BY <1>1, Invariance, PTL

(* The stored report says at least what the owner was mailed, as long as no  *)
(* two generations ran at once.                                              *)
THEOREM ReportAlwaysHoldsMail == Spec => []ReportHoldsWhatWasMailed
  <1>1. RevenueInv /\ MailInv /\ ContentInv /\ [Next]_vars => ContentInv'
    BY ContentStep
  <1>2. ContentInv => ReportHoldsWhatWasMailed
    BY DEF ContentInv
  <1> QED BY <1>1, <1>2, InitContent, Invariance, PTL DEF Spec


-----------------------------------------------------------------------------
(* Medians *)

LEMMA LeastNat ==
    ASSUME NEW T \in SUBSET Nat, T # {}
    PROVE  \E x \in T : \A y \in T : x <= y
  <1>1. PICK x \in T : \A y \in T : ~ (<<y, x>> \in OpToRel(<, Nat))
    BY WFMin, NatLessThanWellFounded
  <1>2. \A y \in T : ~ (y < x)
    BY <1>1 DEF OpToRel
  <1> QED BY <1>2

(* The positions of a sequence whose value is at most, or under, a value.    *)
UpTo(s, v)  == {i \in DOMAIN s : s[i] <= v}
Under(s, v) == {i \in DOMAIN s : s[i] < v}

LEMMA WholeDomain ==
    ASSUME NEW s \in Seq(Int)
    PROVE  IsFiniteSet(DOMAIN s) /\ Cardinality(DOMAIN s) = Len(s)
  <1> DEFINE n == Len(s)
  <1>1. n \in Nat /\ DOMAIN s = 1 .. n OBVIOUS
  <1> HIDE DEF n
  <1>2. IsFiniteSet(1 .. n) /\ Cardinality(1 .. n) = IF 1 > n THEN 0 ELSE n - 1 + 1
    BY <1>1, FS_Interval
  <1>3. Cardinality(1 .. n) = n BY <1>1, <1>2
  <1> QED BY <1>1, <1>2, <1>3 DEF n

LEMMA Positions ==
    ASSUME NEW s \in Seq(Int), NEW S \in SUBSET DOMAIN s
    PROVE  /\ IsFiniteSet(S) /\ Cardinality(S) \in Nat
           /\ Cardinality(S) <= Len(s)
           /\ \A T \in SUBSET S : IsFiniteSet(T) /\ Cardinality(T) <= Cardinality(S)
           /\ \A T \in SUBSET S : Cardinality(T) = Cardinality(S) => T = S
  <1>1. DOMAIN s = 1 .. Len(s) /\ Len(s) \in Nat OBVIOUS
  <1>2. IsFiniteSet(DOMAIN s) /\ Cardinality(DOMAIN s) = Len(s)
    BY WholeDomain
  <1>3. IsFiniteSet(S) /\ Cardinality(S) <= Len(s)
    BY <1>2, FS_Subset
  <1>4. Cardinality(S) \in Nat
    BY <1>3, FS_CardinalityType
  <1>5. \A T \in SUBSET S : IsFiniteSet(T) /\ Cardinality(T) <= Cardinality(S)
    BY <1>3, FS_Subset
  <1>6. \A T \in SUBSET S : Cardinality(T) = Cardinality(S) => T = S
    BY <1>3, FS_Subset
  <1> QED BY <1>3, <1>4, <1>5, <1>6

(* Of a finite set's members, one has a greatest value.                      *)
LEMMA Greatest ==
    ASSUME NEW S, IsFiniteSet(S), S # {}, NEW f, \A i \in S : f[i] \in Int
    PROVE  \E i \in S : \A j \in S : f[j] <= f[i]
  <1> DEFINE Above(i) == {j \in S : f[i] < f[j]}
             T == {Cardinality(Above(i)) : i \in S}
  <1>1. \A i \in S : Above(i) \in SUBSET S OBVIOUS
  <1>2. \A i \in S : IsFiniteSet(Above(i)) /\ Cardinality(Above(i)) \in Nat
    <2> HIDE DEF Above
    <2>1. \A i \in S : IsFiniteSet(Above(i)) BY <1>1, FS_Subset
    <2> QED BY <2>1, FS_CardinalityType
  <1>3. T \in SUBSET Nat /\ T # {} BY <1>2
  <1> HIDE DEF T
  <1>4. PICK least \in T : \A n \in T : least <= n BY <1>3, LeastNat
  <1>5. PICK i \in S : least = Cardinality(Above(i)) BY <1>4 DEF T
  <1>6. ASSUME NEW j \in S, ~(f[j] <= f[i]) PROVE FALSE
    <2>1. f[i] < f[j] BY <1>6
    <2>2. Above(j) \in SUBSET Above(i) BY <2>1
    <2>3. j \in Above(i) /\ j \notin Above(j) BY <2>1
    <2>4. Cardinality(Above(j)) \in T BY DEF T
    <2> HIDE DEF Above
    <2>5. Cardinality(Above(i)) <= Cardinality(Above(j)) BY <1>4, <1>5, <2>4
    <2>6. Cardinality(Above(j)) <= Cardinality(Above(i))
          /\ (Cardinality(Above(i)) = Cardinality(Above(j)) => Above(i) = Above(j))
      BY <1>2, <2>2, FS_Subset
    <2> QED BY <1>2, <2>3, <2>5, <2>6
  <1> QED BY <1>6

(* The k-th smallest value exists: fewer than k are under it, and at least k *)
(* are not above it.                                                         *)
LEMMA KthIs ==
    ASSUME NEW s \in Seq(Int), NEW k \in 1 .. Len(s)
    PROVE  /\ Kth(s, k) \in Int
           /\ Cardinality(Under(s, Kth(s, k))) < k
           /\ k <= Cardinality(UpTo(s, Kth(s, k)))
  <1> DEFINE Enough == {i \in DOMAIN s : k <= Cardinality(UpTo(s, s[i]))}
             T == {Cardinality(UpTo(s, s[i])) : i \in Enough}
  <1>0. /\ \A i \in DOMAIN s : s[i] \in Int
        /\ DOMAIN s = 1 .. Len(s) /\ Len(s) \in Nat /\ 1 <= Len(s)
    OBVIOUS
  <1>1. \A v : UpTo(s, v) \in SUBSET DOMAIN s /\ Under(s, v) \in SUBSET DOMAIN s
    BY DEF UpTo, Under
  <1>2. Enough # {}
    <2>1. DOMAIN s # {} BY <1>0
    <2>2. PICK i \in DOMAIN s : \A j \in DOMAIN s : s[j] <= s[i]
      BY <1>0, <2>1, WholeDomain, Greatest
    <2>3. UpTo(s, s[i]) = DOMAIN s BY <2>2 DEF UpTo
    <2>4. Cardinality(DOMAIN s) = Len(s) BY WholeDomain
    <2> QED BY <2>3, <2>4
  <1>3. T \in SUBSET Nat /\ T # {} BY <1>1, <1>2, Positions
  <1>4. PICK least \in T : \A n \in T : least <= n
    <2> HIDE DEF T
    <2> QED BY <1>3, LeastNat
  <1>5. PICK i \in Enough : least = Cardinality(UpTo(s, s[i])) BY <1>4
  <1>6. Cardinality(Under(s, s[i])) < k
    <2> SUFFICES ASSUME ~(Cardinality(Under(s, s[i])) < k) PROVE FALSE
      OBVIOUS
    <2>1. Cardinality(Under(s, s[i])) \in Nat /\ k <= Cardinality(Under(s, s[i]))
      BY <1>1, Positions
    <2>2. Under(s, s[i]) # {}
      <3>1. k >= 1 /\ k \in Nat BY <1>0
      <3>2. Cardinality(Under(s, s[i])) # 0 BY <2>1, <3>1
      <3> QED BY <3>2, FS_EmptySet
    <2>3. PICK j \in Under(s, s[i]) : \A m \in Under(s, s[i]) : s[m] <= s[j]
      <3>1. IsFiniteSet(Under(s, s[i])) BY <1>1, Positions
      <3>2. \A m \in Under(s, s[i]) : s[m] \in Int BY <1>0 DEF Under
      <3> QED BY <2>2, <3>1, <3>2, Greatest
    <2>4. j \in DOMAIN s /\ s[j] < s[i] BY <2>3 DEF Under
    <2>5. Under(s, s[i]) = UpTo(s, s[j]) BY <1>0, <2>3, <2>4 DEF Under, UpTo
    <2>6. j \in Enough BY <2>1, <2>4, <2>5
    <2>7. least <= Cardinality(UpTo(s, s[j])) BY <1>4, <2>6
    <2>8. UpTo(s, s[j]) \in SUBSET UpTo(s, s[i]) BY <1>0, <2>4 DEF UpTo
    <2>9. i \in UpTo(s, s[i]) /\ i \notin UpTo(s, s[j]) BY <1>0, <2>4 DEF UpTo
    <2>10. /\ Cardinality(UpTo(s, s[j])) <= Cardinality(UpTo(s, s[i]))
           /\ Cardinality(UpTo(s, s[j])) # Cardinality(UpTo(s, s[i]))
      BY <1>1, <2>8, <2>9, Positions
    <2>11. Cardinality(UpTo(s, s[j])) \in Nat /\ Cardinality(UpTo(s, s[i])) \in Nat
      BY <1>1, Positions
    <2> QED BY <1>5, <2>7, <2>10, <2>11
  <1> DEFINE Fits(v) == Cardinality(Under(s, v)) < k /\ k <= Cardinality(UpTo(s, v))
  <1>7. Kth(s, k) = CHOOSE v \in Range(s) : Fits(v)
    BY DEF Kth, Under, UpTo
  <1>8. s[i] \in Range(s) /\ Fits(s[i]) BY <1>5, <1>6 DEF Range
  <1> HIDE DEF Fits
  <1>9. Kth(s, k) \in Range(s) /\ Fits(Kth(s, k)) BY <1>7, <1>8
  <1> QED BY <1>0, <1>9 DEF Fits, Range

(* The middle positions of a sequence.                                       *)
LEMMA Middle ==
    ASSUME NEW n \in Nat, n >= 1
    PROVE  /\ (n + 1) \div 2 \in 1 .. n /\ n \div 2 + 1 \in 1 .. n
           /\ 2 * ((n + 1) \div 2) >= n /\ 2 * ((n + 1) \div 2) <= n + 1
           /\ 2 * (n \div 2 + 1) >= n + 1 /\ 2 * (n \div 2 + 1) <= n + 2
  OBVIOUS

Between(s, lo, hi) == {i \in DOMAIN s : s[i] \in lo .. hi}
Mostly(s, lo, hi) == 2 * Cardinality(Between(s, lo, hi)) > Len(s)

(* A middle value lies between any bounds most values lie between.           *)
LEMMA MiddleIsWithin ==
    ASSUME NEW s \in Seq(Int), NEW lo \in Int, NEW hi \in Int, Mostly(s, lo, hi),
           NEW k \in 1 .. Len(s), 2 * k >= Len(s), 2 * k <= Len(s) + 2
    PROVE  Kth(s, k) \in lo .. hi
  <1> DEFINE v == Kth(s, k)
             W == Between(s, lo, hi)
  <1>0. /\ \A i \in DOMAIN s : s[i] \in Int
        /\ DOMAIN s = 1 .. Len(s) /\ Len(s) \in Nat
    OBVIOUS
  <1>1. /\ v \in Int /\ Cardinality(Under(s, v)) < k
        /\ k <= Cardinality(UpTo(s, v))
    BY KthIs
  <1>2. /\ W \in SUBSET DOMAIN s /\ UpTo(s, v) \in SUBSET DOMAIN s
        /\ Under(s, v) \in SUBSET DOMAIN s
    BY DEF Between, UpTo, Under
  <1>3. /\ Cardinality(W) \in Nat /\ Cardinality(UpTo(s, v)) \in Nat
        /\ Cardinality(Under(s, v)) \in Nat
    BY <1>2, Positions
  <1>4. 2 * Cardinality(W) > Len(s) BY DEF Mostly
  <1> HIDE DEF v
  <1>5. ~(v < lo)
    <2> SUFFICES ASSUME v < lo PROVE FALSE OBVIOUS
    <2>1. IsFiniteSet(DOMAIN s) /\ Cardinality(DOMAIN s) = Len(s)
      BY WholeDomain
    <2>2. W \cap UpTo(s, v) = {} BY <1>0, <1>1 DEF Between, UpTo
    <2> HIDE DEF W
    <2>3. Cardinality(W) + Cardinality(UpTo(s, v)) > Cardinality(DOMAIN s)
      BY <1>0, <1>1, <1>3, <1>4, <2>1
    <2> QED BY <1>2, <2>1, <2>2, <2>3, FS_MajoritiesIntersect
  <1>6. ~(hi < v)
    <2> SUFFICES ASSUME hi < v PROVE FALSE OBVIOUS
    <2>1. W \in SUBSET Under(s, v) BY <1>0, <1>1 DEF Between, Under
    <2>2. Cardinality(W) <= Cardinality(Under(s, v)) BY <1>2, <2>1, Positions
    <2> HIDE DEF W
    <2> QED BY <1>0, <1>1, <1>3, <1>4, <2>2
  <1> QED BY <1>1, <1>5, <1>6 DEF v

LEMMA MedianIsWithin ==
    ASSUME NEW s \in Seq(Int), Len(s) >= 1, NEW lo \in Int, NEW hi \in Int,
           Mostly(s, lo, hi)
    PROVE  Median2(s) \in 2 * lo .. 2 * hi
  <1> DEFINE n == Len(s)
  <1>0. n \in Nat OBVIOUS
  <1>1. Kth(s, (n + 1) \div 2) \in lo .. hi BY <1>0, Middle, MiddleIsWithin
  <1>2. Kth(s, n \div 2 + 1) \in lo .. hi BY <1>0, Middle, MiddleIsWithin
  <1>3. Median2(s) = Kth(s, (n + 1) \div 2) + Kth(s, n \div 2 + 1) BY DEF Median2
  <1> QED BY <1>1, <1>2, <1>3

(* A breakout stands out of any history of numbers, however wild the rest of *)
(* it was: the median and the median deviation stay where most values are.   *)
THEOREM BreakoutStandsOut ==
    ASSUME NEW values \in Seq(Int)
    PROVE  FlagsBreakout(values)
  <1> SUFFICES ASSUME Reliable(values), NEW a \in Range(values), NEW b \in Range(values),
                      2 * Cardinality({i \in DOMAIN values : values[i] \in a .. b})
                        > Len(values),
                      values[Len(values)] > b + 5 * (b - a)
               PROVE  Anomaly(values[Len(values)], values)[1] = "SPIKE"
    BY DEF FlagsBreakout
  <1> DEFINE x   == values[Len(values)]
             med == Median2(values)
             off == [i \in DOMAIN values |-> Distance(2 * values[i], med)]
  <1>0. /\ Len(values) \in Nat /\ Len(values) >= 1
        /\ DOMAIN values = 1 .. Len(values)
        /\ \A i \in DOMAIN values : values[i] \in Int
    BY AnalyticsAssumption DEF Reliable
  <1>1. a \in Int /\ b \in Int /\ x \in Int BY <1>0 DEF Range
  <1>2. Mostly(values, a, b) BY DEF Mostly, Between
  <1>3. med \in 2 * a .. 2 * b BY <1>0, <1>1, <1>2, MedianIsWithin
  <1>4. med \in Int BY <1>1, <1>3
  <1> HIDE DEF med
  <1>5. off \in Seq(Int) /\ Len(off) = Len(values) /\ DOMAIN off = DOMAIN values
    <2>1. \A i \in DOMAIN values : off[i] \in Int BY <1>0, <1>4 DEF Distance
    <2> QED BY <1>0, <2>1
  <1>6. Mostly(off, 0, 2 * (b - a))
    <2>1. Between(values, a, b) \in SUBSET Between(off, 0, 2 * (b - a))
      <3> SUFFICES ASSUME NEW i \in Between(values, a, b)
                   PROVE  i \in Between(off, 0, 2 * (b - a))
        OBVIOUS
      <3>1. i \in DOMAIN values /\ values[i] \in a .. b BY DEF Between
      <3>2. Distance(2 * values[i], med) \in 0 .. 2 * (b - a)
        BY <1>1, <1>3, <3>1 DEF Distance
      <3> QED BY <1>5, <3>1, <3>2 DEF Between
    <2>2. Between(off, 0, 2 * (b - a)) \in SUBSET DOMAIN off BY DEF Between
    <2>3. /\ Cardinality(Between(values, a, b))
               <= Cardinality(Between(off, 0, 2 * (b - a)))
          /\ Cardinality(Between(off, 0, 2 * (b - a))) \in Nat
          /\ Cardinality(Between(values, a, b)) \in Nat
      <3> HIDE DEF off
      <3>1. Between(values, a, b) \in SUBSET DOMAIN off BY <2>1, <2>2
      <3> QED BY <1>5, <2>1, <2>2, <3>1, Positions
    <2> HIDE DEF off
    <2> QED BY <1>0, <1>2, <1>5, <2>3 DEF Mostly
  <1>7. Mad4(values) \in 0 .. 4 * (b - a)
    <2>1. Mad4(values) = Median2(off) BY DEF Mad4, med
    <2> HIDE DEF off
    <2>2. Median2(off) \in 2 * 0 .. 2 * (2 * (b - a))
      BY <1>0, <1>1, <1>5, <1>6, MedianIsWithin
    <2> QED BY <1>1, <2>1, <2>2
  <1> DEFINE mad == Mad4(values)
  <1>8. mad \in Int /\ 0 <= mad /\ mad <= 4 * (b - a) BY <1>1, <1>7
  <1>9. a <= b BY <1>1, <1>8
  <1> HIDE DEF mad, x
  <1>10. x > b + 5 * (b - a) BY DEF x
  <1>11. 2 * x > med /\ 2 * x # med /\ Distance(2 * x, med) > 10 * (b - a)
    BY <1>1, <1>3, <1>4, <1>9, <1>10 DEF Distance
  <1>12. Distance(2 * x, med) \in Int BY <1>1, <1>4 DEF Distance
  <1>13. 20000 * Distance(2 * x, med) >= 3 * 14826 * mad
    BY <1>1, <1>8, <1>9, <1>11, <1>12
  <1>14. Beyond(x, values, 3) BY <1>13 DEF Beyond, med, mad
  <1>15. Direction(x, values) = "SPIKE" BY <1>11 DEF Direction, med
  <1>16. ~(~Reliable(values) \/ 2 * x = Median2(values)) BY <1>11 DEF med
  <1> QED BY <1>14, <1>15, <1>16 DEF Anomaly, x
(* Numbers in order: the k-th has k numbers up to it.                        *)
LEMMA InOrderIs ==
    ASSUME NEW S \in SUBSET Int, IsFiniteSet(S)
    PROVE  InOrder(S) \in Seq(S) /\ Len(InOrder(S)) = Cardinality(S)
  <1> DEFINE n == Cardinality(S)
             Upto(x) == {m \in S : m <= x}
             rank == [x \in S |-> Cardinality(Upto(x))]
  <1>0. n \in Nat BY FS_CardinalityType
  <1>1. \A x \in S : IsFiniteSet(Upto(x)) /\ Cardinality(Upto(x)) \in 1 .. n
    <2> SUFFICES ASSUME NEW x \in S
                 PROVE  IsFiniteSet(Upto(x)) /\ Cardinality(Upto(x)) \in 1 .. n
      OBVIOUS
    <2>1. Upto(x) \in SUBSET S /\ x \in Upto(x) OBVIOUS
    <2> HIDE DEF Upto
    <2>2. IsFiniteSet(Upto(x)) /\ Cardinality(Upto(x)) <= n BY <2>1, FS_Subset
    <2>3. Cardinality(Upto(x)) \in Nat BY <2>2, FS_CardinalityType
    <2>4. Cardinality(Upto(x)) # 0 BY <2>1, <2>2, FS_EmptySet
    <2> QED BY <1>0, <2>2, <2>3, <2>4
  <1>2. \A x, y \in S : x < y => Cardinality(Upto(x)) # Cardinality(Upto(y))
    <2> SUFFICES ASSUME NEW x \in S, NEW y \in S, x < y
                 PROVE  Cardinality(Upto(x)) # Cardinality(Upto(y))
      OBVIOUS
    <2>1. Upto(x) \in SUBSET Upto(y) /\ y \in Upto(y) /\ y \notin Upto(x)
      <3>1. \A m \in S : m \in Int /\ (m <= x => m <= y) /\ y <= y /\ ~(y <= x)
        OBVIOUS
      <3> QED BY <3>1
    <2> HIDE DEF Upto
    <2> QED BY <1>1, <2>1, FS_Subset
  <1>3. \A x, y \in S : Cardinality(Upto(x)) = Cardinality(Upto(y)) => x = y
    <2> HIDE DEF Upto
    <2>1. \A x, y \in S : x < y \/ y < x \/ x = y OBVIOUS
    <2> QED BY <1>2, <2>1
  <1>4. rank \in Injection(S, 1 .. n)
    <2> HIDE DEF Upto
    <2> QED BY <1>1, <1>3 DEF Injection, IsInjective
  <1>5. IsFiniteSet(1 .. n) /\ Cardinality(1 .. n) = n
    <2> HIDE DEF n
    <2>1. IsFiniteSet(1 .. n) /\ Cardinality(1 .. n) = IF 1 > n THEN 0 ELSE n - 1 + 1
      BY <1>0, FS_Interval
    <2> QED BY <1>0, <2>1
  <1>6. rank \in Surjection(S, 1 .. n)
    <2> HIDE DEF rank
    <2>1. Cardinality(S) = Cardinality(1 .. n) BY <1>5
    <2> QED BY <1>4, <1>5, <2>1, FS_Injection
  <1>7. \A k \in 1 .. n : \E x \in S : Cardinality(Upto(x)) = k
    <2> HIDE DEF Upto
    <2> QED BY <1>6 DEF Surjection
  <1>8. \A k \in 1 .. n : (CHOOSE x \in S : Cardinality(Upto(x)) = k) \in S
    <2> HIDE DEF Upto
    <2> QED BY <1>7
  <1>9. InOrder(S) = [k \in 1 .. n |-> CHOOSE x \in S : Cardinality(Upto(x)) = k]
    BY DEF InOrder
  <1> HIDE DEF n, Upto
  <1> QED BY <1>0, <1>8, <1>9 DEF n

(* The highest of the counts of a day is a count.                            *)
LEMMA MaxIs ==
    ASSUME NEW S \in SUBSET Int, IsFiniteSet(S), S # {}
    PROVE  Max(S) \in S /\ \A m \in S : m <= Max(S)
  <1> DEFINE id == [m \in S |-> m]
  <1>1. PICK x \in S : \A m \in S : id[m] <= id[x]
    <2>1. \A m \in S : id[m] \in Int OBVIOUS
    <2> HIDE DEF id
    <2> QED BY <2>1, Greatest
  <1>2. \A m \in S : x >= m BY <1>1
  <1>3. Max(S) \in S /\ \A m \in S : Max(S) >= m BY <1>2 DEF Max
  <1> QED BY <1>3

(* The days of a history and the count of each are numbers.                  *)
LEMMA ByDayIs ==
    ASSUME NEW h \in Seq(Counts \cup {None}), NEW days \in Nat
    PROVE  /\ DOMAIN ByDay(h, days) \in SUBSET Int
           /\ IsFiniteSet(DOMAIN ByDay(h, days))
           /\ \A d \in DOMAIN ByDay(h, days) : ByDay(h, days)[d] \in Int
           /\ DOMAIN ByDay(h, days) = {Day(i) : i \in Snapshots(h, days)}
           /\ \A d \in DOMAIN ByDay(h, days) :
                /\ \E i \in Snapshots(h, days) : Day(i) = d /\ ByDay(h, days)[d] = h[i]
                /\ \A i \in Snapshots(h, days) : Day(i) = d => h[i] <= ByDay(h, days)[d]
  <1> DEFINE seen   == Snapshots(h, days)
             On(d)  == {j \in seen : Day(j) = d}
             dayOf  == [i \in seen |-> Day(i)]
             Dates  == {Day(i) : i \in seen}
             Had(d) == {h[i] : i \in On(d)}
  <1>1. /\ Len(h) \in Nat /\ DOMAIN h = 1 .. Len(h)
        /\ \A i \in DOMAIN h : h[i] \in Counts \cup {None}
    OBVIOUS
  <1>2. seen \in SUBSET DOMAIN h /\ \A i \in seen : h[i] \in Int
    <2>1. \A c \in Counts : c \in Int BY ReportsAssumption
    <2>2. \A i \in seen : i \in DOMAIN h /\ h[i] # None BY DEF Snapshots
    <2> HIDE DEF seen
    <2> QED BY <1>1, <2>1, <2>2
  <1>3. IsFiniteSet(seen)
    <2>1. IsFiniteSet(1 .. Len(h)) BY <1>1, FS_Interval
    <2> HIDE DEF seen
    <2> QED BY <1>1, <1>2, <2>1, FS_Subset
  <1>4. \A i \in seen : Day(i) \in Int
    <2>1. HoursPerDay \in Nat \ {0} BY AnalyticsAssumption
    <2>2. \A i \in seen : i \in Int BY <1>1, <1>2
    <2> HIDE DEF seen
    <2> QED BY <2>1, <2>2 DEF Day
  <1>5. ByDay(h, days) = [d \in Dates |-> Max(Had(d))]
    BY DEF ByDay
  <1> HIDE DEF seen
  <1>6. Dates \in SUBSET Int BY <1>4
  <1>7. IsFiniteSet(Dates)
    <2>1. dayOf \in Surjection(seen, Dates) BY DEF Surjection
    <2> HIDE DEF dayOf, Dates
    <2> QED BY <1>3, <2>1, FS_Surjection
  <1>8. \A d \in Dates : /\ Max(Had(d)) \in Int
                         /\ \E i \in seen : Day(i) = d /\ Max(Had(d)) = h[i]
                         /\ \A i \in seen : Day(i) = d => h[i] <= Max(Had(d))
    <2> SUFFICES ASSUME NEW d \in Dates
                 PROVE  /\ Max(Had(d)) \in Int
                        /\ \E i \in seen : Day(i) = d /\ Max(Had(d)) = h[i]
                        /\ \A i \in seen : Day(i) = d => h[i] <= Max(Had(d))
      OBVIOUS
    <2>1. On(d) \in SUBSET seen /\ On(d) # {} OBVIOUS
    <2>2. IsFiniteSet(On(d))
      <3> HIDE DEF On
      <3> QED BY <1>3, <2>1, FS_Subset
    <2>3. Had(d) \in SUBSET Int /\ Had(d) # {} BY <1>2, <2>1
    <2>4. IsFiniteSet(Had(d))
      <3> DEFINE count == [i \in On(d) |-> h[i]]
      <3>1. count \in Surjection(On(d), Had(d))
        <4> HIDE DEF On
        <4> QED BY DEF Surjection
      <3> HIDE DEF On, Had, count
      <3> QED BY <2>2, <3>1, FS_Surjection
    <2>5. Max(Had(d)) \in Had(d) /\ \A m \in Had(d) : m <= Max(Had(d))
      <3> HIDE DEF Had
      <3> QED BY <2>3, <2>4, MaxIs
    <2> QED BY <2>3, <2>5
  <1>9. Dates = {Day(i) : i \in seen} OBVIOUS
  <1> HIDE DEF Dates, Had
  <1> DEFINE by == ByDay(h, days)
  <1>10. DOMAIN by = Dates /\ \A d \in Dates : by[d] = Max(Had(d)) BY <1>5
  <1> HIDE DEF by
  <1>11. \A d \in DOMAIN by :
            /\ by[d] \in Int
            /\ \E i \in seen : Day(i) = d /\ by[d] = h[i]
            /\ \A i \in seen : Day(i) = d => h[i] <= by[d]
    BY <1>8, <1>10
  <1> QED BY <1>6, <1>7, <1>9, <1>10, <1>11 DEF seen, by

LEMMA DeltasAreNumbers ==
    ASSUME NEW h \in Seq(Counts \cup {None}), NEW days \in Nat
    PROVE  DailyDeltas(h, days) \in Seq(Int)
  <1> DEFINE by   == ByDay(h, days)
             kept == InOrder(DOMAIN by)
             n    == Len(kept)
  <1>1. /\ DOMAIN by \in SUBSET Int /\ IsFiniteSet(DOMAIN by)
        /\ \A d \in DOMAIN by : by[d] \in Int
    BY ByDayIs
  <1>2. DailyDeltas(h, days) = [k \in 1 .. n - 1 |-> by[kept[k + 1]] - by[kept[k]]]
    BY DEF DailyDeltas
  <1> HIDE DEF by
  <1>3. kept \in Seq(DOMAIN by) BY <1>1, InOrderIs
  <1> HIDE DEF kept
  <1>4. n \in Nat /\ \A k \in 1 .. n : kept[k] \in DOMAIN by BY <1>3
  <1>5. \A k \in 1 .. n - 1 : by[kept[k + 1]] - by[kept[k]] \in Int
    <2> SUFFICES ASSUME NEW k \in 1 .. n - 1
                 PROVE  by[kept[k + 1]] - by[kept[k]] \in Int
      OBVIOUS
    <2>1. k \in 1 .. n /\ k + 1 \in 1 .. n BY <1>4
    <2>2. kept[k] \in DOMAIN by /\ kept[k + 1] \in DOMAIN by BY <1>4, <2>1
    <2> QED BY <1>1, <2>2
  <1> HIDE DEF n
  <1>6. CASE n = 0
    <2>1. 1 .. n - 1 = 1 .. 0 BY <1>6
    <2>2. DailyDeltas(h, days) = [k \in 1 .. 0 |-> by[kept[k + 1]] - by[kept[k]]]
      BY <1>2, <2>1
    <2>3. \A k \in 1 .. 0 : by[kept[k + 1]] - by[kept[k]] \in Int
      OBVIOUS
    <2> QED BY <2>2, <2>3
  <1>7. CASE n # 0
    <2>1. n - 1 \in Nat BY <1>4, <1>7
    <2> QED BY <1>2, <1>5, <2>1
  <1> QED BY <1>6, <1>7

LEMMA ObservedAreNumbers ==
    ASSUME history \in Seq(Counts \cup {None})
    PROVE  Observed \in Seq(Int)
  <1> DEFINE seen  == {i \in DOMAIN history : history[i] # None}
             hours == InOrder(seen)
  <1>1. Len(history) \in Nat /\ DOMAIN history = 1 .. Len(history)
        /\ \A i \in DOMAIN history : history[i] \in Counts \cup {None}
    OBVIOUS
  <1>2. seen \in SUBSET DOMAIN history /\ seen \in SUBSET Int
        /\ \A i \in seen : history[i] \in Int
    <2>1. \A c \in Counts : c \in Int BY ReportsAssumption
    <2>2. \A i \in seen : i \in DOMAIN history /\ history[i] # None OBVIOUS
    <2> HIDE DEF seen
    <2> QED BY <1>1, <2>1, <2>2
  <1>3. Observed = [k \in DOMAIN hours |-> history[hours[k]]] BY DEF Observed
  <1>4. IsFiniteSet(seen)
    <2>1. IsFiniteSet(1 .. Len(history)) BY <1>1, FS_Interval
    <2> HIDE DEF seen
    <2> QED BY <1>1, <1>2, <2>1, FS_Subset
  <1> HIDE DEF seen
  <1>5. hours \in Seq(seen) BY <1>2, <1>4, InOrderIs
  <1> HIDE DEF hours
  <1>6. Len(hours) \in Nat /\ DOMAIN hours = 1 .. Len(hours)
        /\ \A k \in DOMAIN hours : history[hours[k]] \in Int
    BY <1>2, <1>5
  <1> QED BY <1>3, <1>6

(* Whatever was observed and missed, a breakout in the daily changes of the  *)
(* followers, or in their count, is flagged.                                 *)
THEOREM BreakoutAlwaysFlagged == Spec => []BreakoutIsFlagged
  <1>1. TypeOK => BreakoutIsFlagged
    <2> SUFFICES ASSUME TypeOK PROVE BreakoutIsFlagged
      OBVIOUS
    <2>1. history \in Seq(Counts \cup {None}) BY DEF TypeOK
    <2>2. WindowDays \in Nat BY ReportsAssumption
    <2>3. DailyDeltas(history, WindowDays) \in Seq(Int)
      BY <2>1, <2>2, DeltasAreNumbers
    <2>4. Observed \in Seq(Int) BY <2>1, ObservedAreNumbers
    <2> QED BY <2>3, <2>4, BreakoutStandsOut DEF BreakoutIsFlagged
  <1> QED BY <1>1, Typing, PTL


-----------------------------------------------------------------------------
(* Sums *)

Pick(s) == CHOOSE x \in s : TRUE

(* g adds up f over the sets of X, one element at a time.                    *)
Adds(g, f, X) ==
    g = [s \in X |-> IF s = {} THEN 0 ELSE f[Pick(s)] + g[s \ {Pick(s)}]]

LEMMA TotalChooses ==
    ASSUME NEW f, NEW S, S = DOMAIN f
    PROVE  Total(f) = (CHOOSE g : Adds(g, f, SUBSET S))[S]
  BY DEF Total, MapThenSumSet, MapThenFoldSet, Adds, Pick

(* What holds of zero and passes from a number to the next holds of all.     *)
LEMMA Climb ==
    ASSUME NEW D \in SUBSET Nat, 0 \in D, \A n \in D : n + 1 \in D
    PROVE  D = Nat
  <1> SUFFICES ASSUME Nat \ D # {} PROVE FALSE
    OBVIOUS
  <1>1. PICK n \in Nat \ D : \A m \in Nat \ D : n <= m BY LeastNat
  <1>2. n # 0 /\ n - 1 \in Nat BY <1>1
  <1>3. n - 1 \in D BY <1>1, <1>2
  <1>4. (n - 1) + 1 \in D BY <1>3
  <1> QED BY <1>1, <1>4

LEMMA Smaller ==
    ASSUME NEW s, IsFiniteSet(s), NEW x \in s
    PROVE  /\ IsFiniteSet(s \ {x})
           /\ Cardinality(s) \in Nat /\ Cardinality(s \ {x}) \in Nat
           /\ Cardinality(s) = Cardinality(s \ {x}) + 1
  <1>1. IsFiniteSet(s \ {x}) /\ Cardinality(s \ {x}) = Cardinality(s) - 1
    BY FS_RemoveElement
  <1>2. Cardinality(s) \in Nat /\ Cardinality(s \ {x}) \in Nat
    BY <1>1, FS_CardinalityType
  <1> QED BY <1>1, <1>2

LEMMA Picked ==
    ASSUME NEW s, s # {}
    PROVE  Pick(s) \in s
  BY DEF Pick

(* The subsets of S with at most n elements.                                 *)
OfSize(S, n) == {s \in SUBSET S : Cardinality(s) <= n}

LEMMA AdderExists ==
    ASSUME NEW f, NEW S, IsFiniteSet(S)
    PROVE  \E g : Adds(g, f, SUBSET S)
  <1> DEFINE D == {n \in Nat : \E g : Adds(g, f, OfSize(S, n))}
  <1>0. \A s \in SUBSET S : IsFiniteSet(s) /\ Cardinality(s) \in Nat
    BY FS_Subset, FS_CardinalityType
  <1>1. 0 \in D
    <2> DEFINE zero == [s \in OfSize(S, 0) |-> 0]
    <2>1. \A s \in OfSize(S, 0) : s = {} BY <1>0, FS_EmptySet DEF OfSize
    <2>2. zero = [s \in OfSize(S, 0) |-> IF s = {} THEN 0
                                       ELSE f[Pick(s)] + zero[s \ {Pick(s)}]]
      BY <2>1
    <2>3. Adds(zero, f, OfSize(S, 0)) BY <2>2 DEF Adds
    <2> QED BY <2>3
  <1>2. ASSUME NEW n \in D PROVE n + 1 \in D
    <2>0. n \in Nat OBVIOUS
    <2>1. PICK g : Adds(g, f, OfSize(S, n)) OBVIOUS
    <2> DEFINE h == [s \in OfSize(S, n + 1) |-> IF s = {} THEN 0
                                              ELSE f[Pick(s)] + g[s \ {Pick(s)}]]
    <2>2. ASSUME NEW s \in OfSize(S, n + 1), s # {}
          PROVE  h[s \ {Pick(s)}] = g[s \ {Pick(s)}]
      <3> DEFINE r == s \ {Pick(s)}
      <3>1. r \in OfSize(S, n) /\ r \in OfSize(S, n + 1)
        <4>1. IsFiniteSet(s) /\ Cardinality(s) <= n + 1 /\ s \in SUBSET S
          BY <1>0 DEF OfSize
        <4>2. Cardinality(r) \in Nat /\ Cardinality(s) = Cardinality(r) + 1
          BY <2>2, <4>1, Picked, Smaller
        <4>3. Cardinality(r) <= n /\ Cardinality(r) <= n + 1 BY <2>0, <4>1, <4>2
        <4> QED BY <4>1, <4>3 DEF OfSize
      <3> HIDE DEF r
      <3>2. g[r] = IF r = {} THEN 0 ELSE f[Pick(r)] + g[r \ {Pick(r)}]
        BY <2>1, <3>1 DEF Adds
      <3>3. h[r] = g[r] BY <3>1, <3>2
      <3> QED BY <3>3 DEF r
    <2>3. h = [s \in OfSize(S, n + 1) |-> IF s = {} THEN 0
                                        ELSE f[Pick(s)] + h[s \ {Pick(s)}]]
      BY <2>2
    <2>4. Adds(h, f, OfSize(S, n + 1)) BY <2>3 DEF Adds
    <2> QED BY <2>0, <2>4
  <1> HIDE DEF D
  <1>3. D = Nat
    <2>1. D \in SUBSET Nat BY DEF D
    <2> QED BY <1>1, <1>2, <2>1, Climb
  <1>4. Cardinality(S) \in D BY <1>3, FS_CardinalityType
  <1>5. OfSize(S, Cardinality(S)) = SUBSET S BY FS_Subset DEF OfSize
  <1> QED BY <1>4, <1>5 DEF D

Sums(g, f, S) == Adds(g, f, SUBSET S)

LEMMA TotalAdds ==
    ASSUME NEW f, IsFiniteSet(DOMAIN f)
    PROVE  \E g : Sums(g, f, DOMAIN f) /\ Total(f) = g[DOMAIN f]
  <1>1. \E g : Sums(g, f, DOMAIN f) BY AdderExists DEF Sums
  <1> DEFINE g == CHOOSE g : Sums(g, f, DOMAIN f)
  <1>2. Sums(g, f, DOMAIN f) BY <1>1
  <1>3. Total(f) = g[DOMAIN f] BY TotalChooses DEF Sums
  <1> QED BY <1>2, <1>3

LEMMA AddsStep ==
    ASSUME NEW g, NEW f, NEW S, Sums(g, f, S), NEW s \in SUBSET S
    PROVE  /\ s = {} => g[s] = 0
           /\ s # {} => g[s] = f[Pick(s)] + g[s \ {Pick(s)}]
  BY DEF Adds, Sums

(* Functions that agree have the same sums.                                  *)
LEMMA SameSums ==
    ASSUME NEW g, NEW f, NEW S, Sums(g, f, S), IsFiniteSet(S),
           NEW h, NEW e, NEW R \in SUBSET S, Sums(h, e, R),
           \A x \in R : f[x] = e[x]
    PROVE  \A s \in SUBSET R : g[s] = h[s]
  <1> DEFINE D == {n \in Nat : \A s \in SUBSET R : Cardinality(s) <= n => g[s] = h[s]}
  <1>0. \A s \in SUBSET R : IsFiniteSet(s) /\ Cardinality(s) \in Nat
    BY FS_Subset, FS_CardinalityType
  <1>1. 0 \in D
    <2>1. \A s \in SUBSET R : Cardinality(s) <= 0 => s = {} BY <1>0, FS_EmptySet
    <2> QED BY <2>1, AddsStep
  <1>2. ASSUME NEW n \in D PROVE n + 1 \in D
    <2>1. ASSUME NEW s \in SUBSET R, Cardinality(s) <= n + 1, s # {} PROVE g[s] = h[s]
      <3> DEFINE r == s \ {Pick(s)}
      <3>1. Pick(s) \in s /\ Pick(s) \in R BY <2>1, Picked
      <3>2. Cardinality(r) \in Nat /\ Cardinality(s) = Cardinality(r) + 1
        BY <1>0, <3>1, Smaller
      <3>3. Cardinality(r) <= n BY <2>1, <3>2
      <3>4. g[r] = h[r] BY <3>3
      <3>5. g[s] = f[Pick(s)] + g[r] /\ h[s] = e[Pick(s)] + h[r]
        BY <2>1, AddsStep
      <3> QED BY <3>1, <3>4, <3>5
    <2>2. \A s \in SUBSET R : s = {} => g[s] = h[s] BY AddsStep
    <2> QED BY <2>1, <2>2
  <1>3. D = Nat
    <2> HIDE DEF D
    <2>1. D \in SUBSET Nat BY DEF D
    <2> QED BY <1>1, <1>2, <2>1, Climb
  <1> QED BY <1>0, <1>3

IntegersOn(f, S) == \A x \in S : f[x] \in Int

(* A sum of integers is an integer, and any element can be taken out of it.  *)
LEMMA AnyOrder ==
    ASSUME NEW g, NEW f, NEW S, Sums(g, f, S), IsFiniteSet(S),
           IntegersOn(f, S)
    PROVE  \A s \in SUBSET S : /\ g[s] \in Int
                              /\ \A x \in s : g[s] = f[x] + g[s \ {x}]
  <1> DEFINE Fit(s) == g[s] \in Int /\ \A x \in s : g[s] = f[x] + g[s \ {x}]
             D == {n \in Nat : \A s \in SUBSET S : Cardinality(s) <= n => Fit(s)}
  <1>0. \A s \in SUBSET S : IsFiniteSet(s) /\ Cardinality(s) \in Nat
    BY FS_Subset, FS_CardinalityType
  <1>1. \A s \in SUBSET S : s = {} => Fit(s)
    <2>1. \A s \in SUBSET S : s = {} => g[s] = 0 BY AddsStep
    <2> QED BY <2>1
  <1>2. 0 \in D
    <2>1. \A s \in SUBSET S : Cardinality(s) <= 0 => s = {} BY <1>0, FS_EmptySet
    <2> QED BY <1>1, <2>1
  <1>3. ASSUME NEW n \in D PROVE n + 1 \in D
    <2>0. \A s \in SUBSET S : Cardinality(s) <= n => Fit(s) OBVIOUS
    <2>1. ASSUME NEW s \in SUBSET S, Cardinality(s) <= n + 1, s # {} PROVE Fit(s)
      <3> DEFINE c == Pick(s)
                 r == s \ {c}
      <3>1. c \in s /\ f[c] \in Int BY <2>1, Picked DEF IntegersOn
      <3> HIDE DEF c
      <3>2. \A x \in s : /\ Cardinality(s \ {x}) \in Nat
                         /\ Cardinality(s) = Cardinality(s \ {x}) + 1
        BY <1>0, Smaller
      <3>3. \A x \in s : Cardinality(s \ {x}) <= n BY <2>1, <3>2
      <3>4. \A x \in s : Fit(s \ {x}) BY <2>0, <3>3
      <3>5. g[s] = f[c] + g[r] BY <2>1, AddsStep DEF c
      <3>9. g[r] \in Int BY <3>1, <3>4
      <3>6. g[s] \in Int BY <3>1, <3>5, <3>9
      <3>7. ASSUME NEW x \in s, x # c PROVE g[s] = f[x] + g[s \ {x}]
        <4>1. x \in r /\ c \in s \ {x} BY <3>1, <3>7
        <4>2. g[r] = f[x] + g[r \ {x}] BY <3>1, <3>4, <4>1
        <4>3. g[s \ {x}] = f[c] + g[(s \ {x}) \ {c}] BY <3>4, <4>1
        <4>4. r \ {x} = (s \ {x}) \ {c} OBVIOUS
        <4>5. g[r \ {x}] \in Int
          <5>1. r \in SUBSET S /\ Cardinality(r) <= n BY <3>1, <3>3
          <5>2. Cardinality(r) \in Nat /\ Cardinality(r \ {x}) \in Nat
                /\ Cardinality(r) = Cardinality(r \ {x}) + 1
            BY <1>0, <4>1, <5>1, Smaller
          <5>3. Cardinality(r \ {x}) <= n BY <5>1, <5>2
          <5> QED BY <2>0, <5>3
        <4>6. f[x] \in Int /\ f[c] \in Int BY <3>1 DEF IntegersOn
        <4>7. g[s \ {x}] = f[c] + g[r \ {x}] BY <4>3, <4>4
        <4> HIDE DEF r, Fit
        <4> QED BY <3>5, <4>2, <4>5, <4>6, <4>7
      <3>8. \A x \in s : g[s] = f[x] + g[s \ {x}] BY <3>5, <3>7
      <3> QED BY <3>6, <3>8
    <2> HIDE DEF Fit
    <2> QED BY <1>1, <2>0, <2>1
  <1>4. D = Nat
    <2> HIDE DEF D
    <2>1. D \in SUBSET Nat BY DEF D
    <2> QED BY <1>2, <1>3, <2>1, Climb
  <1> QED BY <1>0, <1>4

(* The total of a function on a finite set of integers' values, one argument *)
(* at a time.                                                                *)
LEMMA TotalEmpty ==
    ASSUME NEW f, DOMAIN f = {}
    PROVE  Total(f) = 0
  <1>1. IsFiniteSet(DOMAIN f) BY FS_EmptySet
  <1>2. PICK g : Sums(g, f, DOMAIN f) /\ Total(f) = g[DOMAIN f]
    BY <1>1, TotalAdds
  <1> QED BY <1>2, AddsStep

(* e is f on some of the arguments in X.                                     *)
IsPart(e, f, X) == DOMAIN e \in SUBSET X /\ \A y \in DOMAIN e : f[y] = e[y]

LEMMA TotalOfPart ==
    ASSUME NEW g, NEW f, NEW X, Sums(g, f, X), IsFiniteSet(X), NEW e, IsPart(e, f, X)
    PROVE  Total(e) = g[DOMAIN e]
  <1>1. IsFiniteSet(DOMAIN e) BY FS_Subset DEF IsPart
  <1>2. PICK h : Sums(h, e, DOMAIN e) /\ Total(e) = h[DOMAIN e]
    BY <1>1, TotalAdds
  <1> DEFINE R == DOMAIN e
  <1>3. R \in SUBSET X /\ Sums(h, e, R) /\ \A y \in R : f[y] = e[y]
    BY <1>2 DEF IsPart
  <1> HIDE DEF R
  <1>4. \A s \in SUBSET R : g[s] = h[s] BY <1>3, SameSums
  <1>5. g[R] = h[R] BY <1>4
  <1> QED BY <1>2, <1>5 DEF R

LEMMA TotalStep ==
    ASSUME NEW f, IsFiniteSet(DOMAIN f), IntegersOn(f, DOMAIN f),
           NEW x \in DOMAIN f, NEW S, S = DOMAIN f \ {x}
    PROVE  /\ Total(f) \in Int
           /\ Total([y \in S |-> f[y]]) \in Int
           /\ Total(f) = f[x] + Total([y \in S |-> f[y]])
  <1> DEFINE e == [y \in S |-> f[y]]
  <1>1. IsFiniteSet(S) /\ DOMAIN e = S /\ S \in SUBSET (DOMAIN f) BY FS_Subset
  <1>2. PICK g : Sums(g, f, DOMAIN f) /\ Total(f) = g[DOMAIN f]
    BY TotalAdds
  <1>4. \A y \in S : f[y] = e[y] OBVIOUS
  <1> DEFINE X == DOMAIN f
  <1>3. Sums(g, f, X) /\ IsFiniteSet(X) /\ IsPart(e, f, X)
        /\ IntegersOn(f, X)
    BY <1>1, <1>2, <1>4 DEF IsPart
  <1> HIDE DEF e, X
  <1>5. Total(e) = g[DOMAIN e] BY <1>3, TotalOfPart
  <1>6. g[X] \in Int /\ g[S] \in Int /\ g[X] = f[x] + g[S]
    <2>1. \A s \in SUBSET X : /\ g[s] \in Int
                              /\ \A y \in s : g[s] = f[y] + g[s \ {y}]
      BY <1>3, AnyOrder
    <2>2. X \in SUBSET X /\ S \in SUBSET X /\ x \in X /\ S = X \ {x} BY <1>1 DEF X
    <2> QED BY <2>1, <2>2
  <1> QED BY <1>1, <1>2, <1>5, <1>6 DEF e, X, IntegersOn


-----------------------------------------------------------------------------
(* The net change *)

(* The last days of the stretches that D is made of, and the days before     *)
(* their first ones.                                                         *)
LastOnes(D)   == {d \in D : d + 1 \notin D}
DaysBefore(D) == {d - 1 : d \in {x \in D : x - 1 \notin D}}

(* Every day of D and the day before it have a count.                        *)
Counted(by, D) == \A d \in D : {d - 1, d} \subseteq DOMAIN by

Gained(by, D) == Total([d \in D |-> by[d] - by[d - 1]])
SumOver(by, S) == Total([d \in S |-> by[d]])

Telescopes(by, D) ==
    /\ LastOnes(D) \cup DaysBefore(D) \subseteq DOMAIN by
    /\ IsFiniteSet(LastOnes(D)) /\ IsFiniteSet(DaysBefore(D))
    /\ Gained(by, D) \in Int
    /\ SumOver(by, LastOnes(D)) \in Int /\ SumOver(by, DaysBefore(D)) \in Int
    /\ Gained(by, D) = SumOver(by, LastOnes(D)) - SumOver(by, DaysBefore(D))

(* One argument taken out of a sum, and one put in.                          *)
LEMMA TakeOut ==
    ASSUME NEW by, NEW S, IsFiniteSet(S), IntegersOn(by, S), NEW x \in S
    PROVE  /\ SumOver(by, S) \in Int /\ SumOver(by, S \ {x}) \in Int
           /\ SumOver(by, S) = by[x] + SumOver(by, S \ {x})
  <1> DEFINE f == [d \in S |-> by[d]]
             R == S \ {x}
  <1>1. DOMAIN f = S /\ IsFiniteSet(DOMAIN f) /\ x \in DOMAIN f /\ R = DOMAIN f \ {x}
    OBVIOUS
  <1>2. IntegersOn(f, DOMAIN f) BY DEF IntegersOn
  <1>3. [y \in R |-> f[y]] = [y \in R |-> by[y]] /\ f[x] = by[x] OBVIOUS
  <1> HIDE DEF f, R
  <1>4. /\ Total(f) \in Int /\ Total([y \in R |-> f[y]]) \in Int
        /\ Total(f) = f[x] + Total([y \in R |-> f[y]])
    BY <1>1, <1>2, TotalStep
  <1> QED BY <1>3, <1>4 DEF SumOver, f, R

LEMMA PutIn ==
    ASSUME NEW by, NEW S, IsFiniteSet(S), NEW x, x \notin S,
           IntegersOn(by, S \cup {x})
    PROVE  /\ SumOver(by, S) \in Int /\ SumOver(by, S \cup {x}) \in Int
           /\ SumOver(by, S \cup {x}) = by[x] + SumOver(by, S)
  <1> DEFINE T == S \cup {x}
  <1>1. IsFiniteSet(T) /\ x \in T /\ S = T \ {x} /\ IntegersOn(by, T) BY FS_AddElement
  <1> HIDE DEF T
  <1>2. /\ SumOver(by, T) \in Int /\ SumOver(by, T \ {x}) \in Int
        /\ SumOver(by, T) = by[x] + SumOver(by, T \ {x})
    BY <1>1, TakeOut
  <1> QED BY <1>1, <1>2 DEF T

LEMMA GainedStep ==
    ASSUME NEW by, NEW D, IsFiniteSet(D), Counted(by, D), IntegersOn(by, DOMAIN by),
           NEW m \in D
    PROVE  /\ Gained(by, D \ {m}) \in Int
           /\ Gained(by, D) = by[m] - by[m - 1] + Gained(by, D \ {m})
           /\ by[m] \in Int /\ by[m - 1] \in Int
  <1> DEFINE f == [d \in D |-> by[d] - by[d - 1]]
             R == D \ {m}
  <1>0. \A d \in D : by[d] \in Int /\ by[d - 1] \in Int BY DEF Counted, IntegersOn
  <1>1. DOMAIN f = D /\ IsFiniteSet(DOMAIN f) /\ m \in DOMAIN f /\ R = DOMAIN f \ {m}
    OBVIOUS
  <1>2. IntegersOn(f, DOMAIN f) BY <1>0 DEF IntegersOn
  <1>3. [y \in R |-> f[y]] = [y \in R |-> by[y] - by[y - 1]] /\ f[m] = by[m] - by[m - 1]
    OBVIOUS
  <1> HIDE DEF f, R
  <1>4. /\ Total(f) \in Int /\ Total([y \in R |-> f[y]]) \in Int
        /\ Total(f) = f[m] + Total([y \in R |-> f[y]])
    BY <1>1, <1>2, TotalStep
  <1> QED BY <1>0, <1>3, <1>4 DEF Gained, f, R

LEMMA GainedNone ==
    ASSUME NEW by
    PROVE  Gained(by, {}) = 0
  <1> DEFINE f == [d \in {} |-> by[d] - by[d - 1]]
  <1>1. DOMAIN f = {} OBVIOUS
  <1> HIDE DEF f
  <1>2. Total(f) = 0 BY <1>1, TotalEmpty
  <1> QED BY <1>2 DEF Gained, f

LEMMA NothingGained ==
    ASSUME NEW by
    PROVE  Telescopes(by, {})
  <1>1. LastOnes({}) = {} /\ DaysBefore({}) = {} BY DEF LastOnes, DaysBefore
  <1>2. SumOver(by, {}) = 0
    <2> DEFINE f == [d \in {} |-> by[d]]
    <2>1. DOMAIN f = {} OBVIOUS
    <2> HIDE DEF f
    <2>2. Total(f) = 0 BY <2>1, TotalEmpty
    <2> QED BY <2>2 DEF SumOver, f
  <1>3. Gained(by, {}) = 0 BY GainedNone
  <1>4. IsFiniteSet({}) BY FS_EmptySet
  <1> QED BY <1>1, <1>2, <1>3, <1>4 DEF Telescopes

(* The last day prolongs a stretch or begins one.                            *)
LEMMA OneMoreDay ==
    ASSUME NEW by, NEW D \in SUBSET Int, IsFiniteSet(D), Counted(by, D),
           IntegersOn(by, DOMAIN by),
           NEW m \in D, \A d \in D : d <= m, Telescopes(by, D \ {m})
    PROVE  Telescopes(by, D)
  <1> DEFINE R == D \ {m}
             ends == LastOnes(R)
             starts == DaysBefore(R)
  <1>0. m \in DOMAIN by /\ m - 1 \in DOMAIN by BY DEF Counted
  <1>1. /\ ends \subseteq DOMAIN by /\ starts \subseteq DOMAIN by
        /\ IsFiniteSet(ends) /\ IsFiniteSet(starts)
        /\ Gained(by, R) \in Int /\ SumOver(by, ends) \in Int /\ SumOver(by, starts) \in Int
        /\ Gained(by, R) = SumOver(by, ends) - SumOver(by, starts)
    BY DEF Telescopes
  <1>2. /\ Gained(by, D) = by[m] - by[m - 1] + Gained(by, R)
        /\ by[m] \in Int /\ by[m - 1] \in Int
    BY GainedStep
  <1>3. \A S : S \subseteq DOMAIN by => IntegersOn(by, S) BY DEF IntegersOn
  <1>4. m \notin ends BY DEF LastOnes
  <1>5. CASE m - 1 \in D
    <2> DEFINE kept == ends \ {m - 1}
    <2>1. LastOnes(D) = kept \cup {m} /\ m - 1 \in ends
      <3>1. m \in Int /\ m + 1 \notin D OBVIOUS
      <3>2. \A d \in R : d + 1 \notin D <=> (d + 1 \notin R /\ d # m - 1) BY <3>1
      <3>3. m - 1 \in R /\ (m - 1) + 1 \notin R BY <1>5, <3>1
      <3>4. LastOnes(D) = {d \in R : d + 1 \notin R /\ d # m - 1} \cup {m}
        <4> HIDE DEF R
        <4>1. D = R \cup {m} BY DEF R
        <4> QED BY <3>1, <3>2, <4>1 DEF LastOnes
      <3> HIDE DEF R
      <3> QED BY <3>3, <3>4 DEF LastOnes
    <2>2. DaysBefore(D) = starts
      <3>1. {x \in D : x - 1 \notin D} = {x \in R : x - 1 \notin R} BY <1>5
      <3> QED BY <3>1 DEF DaysBefore
    <2>3. IsFiniteSet(kept) /\ m \notin kept /\ kept \subseteq DOMAIN by
      BY <1>1, <1>4, FS_Subset
    <2>4. IsFiniteSet(kept \cup {m}) /\ kept \cup {m} \subseteq DOMAIN by
      BY <1>0, <2>3, FS_AddElement
    <2>5. SumOver(by, kept) \in Int /\ SumOver(by, ends) = by[m - 1] + SumOver(by, kept)
      <3>1. IntegersOn(by, ends) BY <1>1, <1>3
      <3> HIDE DEF ends
      <3> QED BY <1>1, <2>1, <3>1, TakeOut
    <2>6. /\ SumOver(by, kept \cup {m}) \in Int
          /\ SumOver(by, kept \cup {m}) = by[m] + SumOver(by, kept)
      <3> HIDE DEF kept
      <3> QED BY <1>3, <2>3, <2>4, PutIn
    <2> HIDE DEF ends, starts, R, kept
    <2>7. Gained(by, D) \in Int
          /\ Gained(by, D) = SumOver(by, kept \cup {m}) - SumOver(by, starts)
      BY <1>1, <1>2, <2>5, <2>6
    <2> QED BY <1>1, <2>1, <2>2, <2>4, <2>6, <2>7 DEF Telescopes
  <1>6. CASE m - 1 \notin D
    <2>1. LastOnes(D) = ends \cup {m}
      <3>1. m \in Int /\ m + 1 \notin D OBVIOUS
      <3>2. \A d \in R : d + 1 \notin D <=> d + 1 \notin R BY <1>6
      <3> HIDE DEF R
      <3>3. D = R \cup {m} BY DEF R
      <3> QED BY <3>1, <3>2, <3>3 DEF LastOnes
    <2>2. DaysBefore(D) = starts \cup {m - 1}
      <3>1. {x \in D : x - 1 \notin D} = {x \in R : x - 1 \notin R} \cup {m} BY <1>6
      <3> QED BY <3>1 DEF DaysBefore
    <2>3. m - 1 \notin starts BY DEF DaysBefore
    <2>4. IsFiniteSet(ends \cup {m}) /\ ends \cup {m} \subseteq DOMAIN by
      BY <1>0, <1>1, FS_AddElement
    <2>5. IsFiniteSet(starts \cup {m - 1}) /\ starts \cup {m - 1} \subseteq DOMAIN by
      BY <1>0, <1>1, FS_AddElement
    <2> HIDE DEF ends, starts, R
    <2>6. /\ SumOver(by, ends \cup {m}) \in Int
          /\ SumOver(by, ends \cup {m}) = by[m] + SumOver(by, ends)
      BY <1>1, <1>3, <1>4, <2>4, PutIn
    <2>7. /\ SumOver(by, starts \cup {m - 1}) \in Int
          /\ SumOver(by, starts \cup {m - 1}) = by[m - 1] + SumOver(by, starts)
      BY <1>1, <1>3, <2>3, <2>5, PutIn
    <2>8. /\ Gained(by, D) \in Int
          /\ Gained(by, D) = SumOver(by, ends \cup {m}) - SumOver(by, starts \cup {m - 1})
      BY <1>1, <1>2, <2>6, <2>7
    <2> QED BY <2>1, <2>2, <2>4, <2>5, <2>6, <2>7, <2>8 DEF Telescopes
  <1> QED BY <1>5, <1>6

LEMMA NetChangeTelescopes ==
    ASSUME NEW by, IntegersOn(by, DOMAIN by),
           NEW D \in SUBSET Int, IsFiniteSet(D), Counted(by, D)
    PROVE  Telescopes(by, D)
  <1> DEFINE N == {n \in Nat : \A S \in SUBSET D : Cardinality(S) <= n => Telescopes(by, S)}
  <1>0. \A S \in SUBSET D : IsFiniteSet(S) /\ Cardinality(S) \in Nat
    BY FS_Subset, FS_CardinalityType
  <1>1. 0 \in N
    <2>1. \A S \in SUBSET D : Cardinality(S) <= 0 => S = {} BY <1>0, FS_EmptySet
    <2> QED BY <2>1, NothingGained
  <1>2. ASSUME NEW n \in N PROVE n + 1 \in N
    <2>1. ASSUME NEW S \in SUBSET D, Cardinality(S) <= n + 1, S # {} PROVE Telescopes(by, S)
      <3>1. PICK m \in S : \A d \in S : d <= m
        <4>1. S \in SUBSET Int /\ IsFiniteSet(S) BY <1>0
        <4> QED BY <2>1, <4>1, MaxIs
      <3>2. Cardinality(S \ {m}) \in Nat /\ Cardinality(S) = Cardinality(S \ {m}) + 1
        BY <1>0, Smaller
      <3>3. Cardinality(S \ {m}) <= n BY <2>1, <3>2
      <3>4. Telescopes(by, S \ {m}) BY <3>3
      <3>5. Counted(by, S) /\ S \in SUBSET Int /\ IsFiniteSet(S) BY <1>0 DEF Counted
      <3> QED BY <3>1, <3>4, <3>5, OneMoreDay
    <2>2. Telescopes(by, {}) BY NothingGained
    <2> QED BY <2>1, <2>2
  <1>3. N = Nat
    <2> HIDE DEF N
    <2>1. N \in SUBSET Nat BY DEF N
    <2> QED BY <1>1, <1>2, <2>1, Climb
  <1> QED BY <1>0, <1>3


(* The days a report sums over have counts, and so have the days before.     *)
LEMMA ReportedIs ==
    ASSUME NEW h \in Seq(Counts \cup {None}), NEW days
    PROVE  LET by == ByDay(h, WindowDays)
               D  == Reported(h, days)
           IN  /\ IntegersOn(by, DOMAIN by)
               /\ D \in SUBSET Int /\ IsFiniteSet(D) /\ Counted(by, D)
               /\ NetChange(h, days) = Gained(by, D)
  <1> DEFINE by == ByDay(h, WindowDays)
             D  == Reported(h, days)
  <1>0. WindowDays \in Nat BY ReportsAssumption
  <1>1. /\ DOMAIN by \in SUBSET Int /\ IsFiniteSet(DOMAIN by)
        /\ \A d \in DOMAIN by : by[d] \in Int
    BY <1>0, ByDayIs
  <1>2. \A d \in D : ChangeOn(by, d) # None BY DEF Reported
  <1>3. NetChange(h, days) = Total([d \in D |-> ChangeOn(by, d)]) BY DEF NetChange
  <1> HIDE DEF by, D
  <1>4. Counted(by, D) BY <1>2 DEF ChangeOn, Counted
  <1>5. D \in SUBSET DOMAIN by BY <1>4 DEF Counted
  <1>6. IsFiniteSet(D) BY <1>1, <1>5, FS_Subset
  <1>7. [d \in D |-> ChangeOn(by, d)] = [d \in D |-> by[d] - by[d - 1]]
    BY <1>4 DEF ChangeOn, Counted
  <1>8. NetChange(h, days) = Gained(by, D) BY <1>3, <1>7 DEF Gained
  <1>9. IntegersOn(by, DOMAIN by) BY <1>1 DEF IntegersOn
  <1> QED BY <1>1, <1>4, <1>5, <1>6, <1>8, <1>9 DEF by, D

(* The net change of a report is what the followers changed by over its      *)
(* unbroken stretches of days, whatever was missed.                          *)
THEOREM NetChangeAlwaysReal == Spec => []NetChangeIsReal
  <1>1. TypeOK => NetChangeIsReal
    <2> SUFFICES ASSUME TypeOK PROVE NetChangeIsReal
      OBVIOUS
    <2> DEFINE by == ByDay(history, WindowDays)
               D  == Reported(history, PeriodDays)
    <2>1. history \in Seq(Counts \cup {None}) BY DEF TypeOK
    <2>2. /\ IntegersOn(by, DOMAIN by)
          /\ D \in SUBSET Int /\ IsFiniteSet(D) /\ Counted(by, D)
          /\ NetChange(history, PeriodDays) = Gained(by, D)
      BY <2>1, ReportedIs
    <2> HIDE DEF by, D
    <2>3. Telescopes(by, D) BY <2>2, NetChangeTelescopes
    <2>4. /\ DaysBefore(D) \cup LastOnes(D) \subseteq DOMAIN by
          /\ NetChange(history, PeriodDays) =
               SumOver(by, LastOnes(D)) - SumOver(by, DaysBefore(D))
      BY <2>2, <2>3 DEF Telescopes
    <2>5. /\ LastOnes(D) = {d \in D : d + 1 \notin D}
          /\ DaysBefore(D) = {d - 1 : d \in {e \in D : e - 1 \notin D}}
      BY DEF LastOnes, DaysBefore
    <2> QED BY <2>4, <2>5 DEF NetChangeIsReal, SumOver, by, D
  <1> QED BY <1>1, Typing, PTL


-----------------------------------------------------------------------------
(* Daily reports *)

LEMMA DayBounds ==
    ASSUME NEW i \in Nat \ {0}
    PROVE  /\ Day(i) \in Nat
           /\ HoursPerDay * Day(i) < i /\ i <= HoursPerDay * Day(i) + HoursPerDay
  <1> DEFINE H == HoursPerDay
             q == (i - 1) \div H
             r == (i - 1) % H
  <1>1. H \in Nat \ {0} /\ i - 1 \in Nat BY AnalyticsAssumption
  <1>2. q \in Nat /\ r \in 0 .. H - 1 /\ i - 1 = H * q + r BY <1>1
  <1>3. H * q \in Nat BY <1>1, <1>2
  <1>4. Day(i) = q BY DEF Day
  <1> HIDE DEF H, q, r
  <1>5. H * q < i /\ i <= H * q + H
    <2> DEFINE p == H * q
    <2>1. p \in Nat /\ i - 1 = p + r BY <1>2, <1>3
    <2> HIDE DEF p
    <2>2. p < i /\ i <= p + H BY <1>1, <1>2, <2>1
    <2> QED BY <2>2 DEF p
  <1> QED BY <1>2, <1>4, <1>5 DEF H

LEMMA Times ==
    ASSUME NEW d \in Int, NEW e \in Int, d <= e
    PROVE  /\ HoursPerDay * d \in Int /\ HoursPerDay * e \in Int
           /\ HoursPerDay * d <= HoursPerDay * e
           /\ HoursPerDay * (d + 1) = HoursPerDay * d + HoursPerDay
           /\ HoursPerDay * (d - 1) = HoursPerDay * d - HoursPerDay
           /\ HoursPerDay * d = d * HoursPerDay
  <1>1. HoursPerDay \in Nat \ {0} BY AnalyticsAssumption
  <1> QED BY <1>1

(* The hours of a day are those after the days before it.                    *)
LEMMA DayIs ==
    ASSUME NEW i \in Nat \ {0}, NEW d \in Int
    PROVE  /\ Day(i) <= d <=> i <= HoursPerDay * d + HoursPerDay
           /\ d <= Day(i) <=> HoursPerDay * d < i
  <1> DEFINE H == HoursPerDay
             x == Day(i)
  <1>1. x \in Nat /\ H * x < i /\ i <= H * x + H BY DayBounds
  <1>2. H \in Nat \ {0} BY AnalyticsAssumption
  <1> HIDE DEF H, x
  <1>3. H * x \in Int /\ H * d \in Int BY <1>1, <1>2
  <1>4. CASE x < d
    <2>1. x + 1 <= d BY <1>1, <1>4
    <2>2. H * (x + 1) <= H * d /\ H * (x + 1) = H * x + H BY <1>1, <2>1, Times DEF H
    <2>3. H * x + H <= H * d BY <2>2
    <2> QED BY <1>1, <1>2, <1>3, <1>4, <2>3 DEF H, x
  <1>5. CASE x = d BY <1>1, <1>2, <1>3, <1>5 DEF H, x
  <1>6. CASE d < x
    <2>1. d + 1 <= x BY <1>1, <1>6
    <2>2. H * (d + 1) <= H * x BY <1>1, <2>1, Times DEF H
    <2>4. H * (d + 1) = H * d + H BY <1>2
    <2>3. H * d + H <= H * x BY <2>2, <2>4
    <2> QED BY <1>1, <1>2, <1>3, <1>6, <2>3 DEF H, x
  <1> QED BY <1>1, <1>4, <1>5, <1>6

LEMMA MinIs ==
    ASSUME NEW S \in SUBSET Int, IsFiniteSet(S), S # {}
    PROVE  Min(S) \in S /\ \A m \in S : Min(S) <= m
  <1> DEFINE neg == [m \in S |-> -m]
  <1>1. PICK x \in S : \A m \in S : neg[m] <= neg[x]
    <2>1. \A m \in S : neg[m] \in Int OBVIOUS
    <2> HIDE DEF neg
    <2> QED BY <2>1, Greatest
  <1>2. \A m \in S : x <= m BY <1>1
  <1>3. Min(S) \in S /\ \A m \in S : Min(S) <= m BY <1>2 DEF Min
  <1> QED BY <1>3

Seen == {i \in DOMAIN history : history[i] # None}

(* The followers never fell where they were seen.                            *)
NeverFell == \A i, j \in Seen : i < j => history[i] <= history[j]

DailyHours(d) == d * HoursPerDay + ReportHour

(* The day d has a report, and was observed before it was made.              *)
ToldOf(d) ==
    /\ d \in Nat \ {0} /\ DailyHours(d) <= Len(history)
    /\ \E i \in Seen : Day(i) = d /\ i <= DailyHours(d)

LEMMA SeenIs ==
    ASSUME TypeOK
    PROVE  /\ DOMAIN history = 1 .. Len(history) /\ Len(history) \in Nat
           /\ Seen \in SUBSET (Nat \ {0}) /\ Seen \in SUBSET Int /\ IsFiniteSet(Seen)
           /\ \A i \in Seen : history[i] \in Int
  <1>1. /\ DOMAIN history = 1 .. Len(history) /\ Len(history) \in Nat
        /\ \A i \in DOMAIN history : history[i] \in Counts \cup {None}
    BY DEF TypeOK
  <1>2. \A c \in Counts : c \in Int BY ReportsAssumption
  <1>3. Seen \in SUBSET DOMAIN history /\ \A i \in Seen : history[i] \in Int
    BY <1>1, <1>2 DEF Seen
  <1>4. IsFiniteSet(1 .. Len(history)) BY <1>1, FS_Interval
  <1>5. IsFiniteSet(Seen) BY <1>1, <1>3, <1>4, FS_Subset
  <1> QED BY <1>1, <1>3, <1>5

(* What a daily report looks at is the beginning of the history.             *)
LEMMA DailyIs ==
    ASSUME TypeOK, NEW d \in Nat \ {0}, DailyHours(d) <= Len(history)
    PROVE  /\ DailyHours(d) \in Nat /\ DailyHours(d) = HoursPerDay * d + ReportHour
           /\ DailyReport(d) \in Seq(Counts \cup {None})
           /\ Len(DailyReport(d)) = DailyHours(d)
           /\ \A i \in 1 .. DailyHours(d) : DailyReport(d)[i] = history[i]
  <1> DEFINE L == DailyHours(d)
  <1>1. HoursPerDay \in Nat \ {0} /\ ReportHour \in Nat
    BY AnalyticsAssumption, ReportsAssumption
  <1>2. L = HoursPerDay * d + ReportHour /\ HoursPerDay * d \in Nat
    BY <1>1 DEF DailyHours
  <1>3. L \in Nat BY <1>1, <1>2
  <1>4. history \in Seq(Counts \cup {None}) BY DEF TypeOK
  <1>5. DailyReport(d) = SubSeq(history, 1, L) BY DEF DailyReport, DailyHours
  <1> HIDE DEF L
  <1>6. L <= Len(history) BY DEF L
  <1> QED BY <1>2, <1>3, <1>4, <1>5, <1>6 DEF L


(* It looks at all that was seen from some hour on, its own day included.    *)
LEMMA DailySnapshots ==
    ASSUME TypeOK, NEW d, ToldOf(d)
    PROVE  LET snap == Snapshots(DailyReport(d), WindowDays)
           IN  /\ \A i \in snap : /\ i \in Seen /\ i <= DailyHours(d)
                                  /\ DailyReport(d)[i] = history[i]
                                  /\ Day(i) <= d
               /\ \A i \in Seen, k \in snap : k <= i /\ i <= DailyHours(d) => i \in snap
               /\ \E i \in snap : Day(i) = d
  <1> DEFINE h == DailyReport(d)
             L == DailyHours(d)
             from == WindowDays * HoursPerDay
             snap == Snapshots(h, WindowDays)
  <1>1. d \in Nat \ {0} /\ L <= Len(history) BY DEF ToldOf
  <1>2. /\ L \in Nat /\ L = HoursPerDay * d + ReportHour
        /\ h \in Seq(Counts \cup {None})
        /\ Len(h) = L /\ DOMAIN h = 1 .. L
        /\ \A i \in 1 .. L : h[i] = history[i]
    BY <1>1, DailyIs
  <1>3. snap = {i \in DOMAIN h : h[i] # None /\ i > Len(h) - from} BY DEF Snapshots
  <1>4. /\ HoursPerDay \in Nat \ {0} /\ WindowDays \in Nat \ {0}
        /\ ReportHour \in 1 .. HoursPerDay
    BY AnalyticsAssumption, ReportsAssumption
  <1>5. from \in Int /\ from >= HoursPerDay
    <2>1. HoursPerDay * 1 <= HoursPerDay * WindowDays
          /\ HoursPerDay * WindowDays \in Int
          /\ HoursPerDay * WindowDays = WindowDays * HoursPerDay
      BY <1>4, Times
    <2> QED BY <1>4, <2>1
  <1>6. /\ DOMAIN history = 1 .. Len(history) /\ Len(history) \in Nat
        /\ Seen \in SUBSET (Nat \ {0})
    BY SeenIs
  <1> HIDE DEF h, L, from
  <1>7. snap = {i \in Seen : i <= L /\ i > L - from}
    <2>1. \A i \in 1 .. L : i \in DOMAIN history BY <1>1, <1>2, <1>6 DEF L
    <2>2. \A i \in Seen : i \in Nat \ {0} BY <1>6
    <2> QED BY <1>2, <1>3, <2>1, <2>2 DEF Seen
  <1> HIDE DEF snap
  <1>8. ASSUME NEW i \in snap
        PROVE  i \in Seen /\ i <= L /\ h[i] = history[i] /\ Day(i) <= d
    <2>1. i \in Seen /\ i \in Nat \ {0} /\ i <= L BY <1>6, <1>7
    <2>2. h[i] = history[i] BY <1>2, <2>1
    <2>3. i <= HoursPerDay * d + HoursPerDay
      <3>1. HoursPerDay * d \in Int BY <1>1, <1>4
      <3> QED BY <1>2, <1>4, <2>1, <3>1
    <2>4. Day(i) <= d BY <1>1, <2>1, <2>3, DayIs
    <2> QED BY <2>1, <2>2, <2>4
  <1>9. ASSUME NEW i \in Seen, NEW k \in snap, k <= i, i <= L PROVE i \in snap
    <2>1. i \in Nat /\ k \in Nat /\ k > L - from BY <1>6, <1>7
    <2> QED BY <1>2, <1>5, <1>7, <1>9, <2>1
  <1>10. \E i \in snap : Day(i) = d
    <2>1. PICK i \in Seen : Day(i) = d /\ i <= L BY DEF ToldOf, L
    <2>2. i \in Nat \ {0} BY <1>6
    <2>3. HoursPerDay * d < i
      <3>1. d <= Day(i) BY <1>1, <2>1
      <3> QED BY <1>1, <2>2, <3>1, DayIs
    <2>4. i > L - from
      <3>1. HoursPerDay * d \in Int BY <1>1, <1>4
      <3> QED BY <1>2, <1>4, <1>5, <2>2, <2>3, <3>1
    <2> QED BY <1>7, <2>1, <2>4
  <1> QED BY <1>8, <1>9, <1>10 DEF h, L, snap

(* The calendar of a daily report ends with its day, and so it tells of that *)
(* day alone.                                                                *)
LEMMA DailyTells ==
    ASSUME TypeOK, NEW d, ToldOf(d)
    PROVE  Reported(DailyReport(d), 1) \subseteq {d}
  <1> DEFINE h == DailyReport(d)
             kept == DOMAIN ByDay(h, WindowDays)
             cal == Calendar(h, WindowDays)
  <1>0. d \in Nat \ {0} /\ DailyHours(d) <= Len(history) BY DEF ToldOf
  <1>1. h \in Seq(Counts \cup {None}) BY <1>0, DailyIs
  <1>2. WindowDays \in Nat BY ReportsAssumption
  <1>3. /\ kept \in SUBSET Int /\ IsFiniteSet(kept)
        /\ kept = {Day(i) : i \in Snapshots(h, WindowDays)}
    BY <1>1, <1>2, ByDayIs
  <1>4. d \in kept /\ \A e \in kept : e <= d BY <1>3, DailySnapshots
  <1>5. cal = IF kept = {} THEN {} ELSE Min(kept) .. Max(kept) BY DEF Calendar
  <1>6. Reported(h, 1) \subseteq {x \in cal : x > Max(cal) - 1}
    BY DEF Reported, LastDays
  <1> HIDE DEF h, kept, cal
  <1>7. Max(kept) = d
    <2>1. Max(kept) \in kept /\ \A m \in kept : m <= Max(kept)
      BY <1>3, <1>4, MaxIs
    <2>2. Max(kept) \in Int /\ d \in Int BY <1>3, <1>4, <2>1
    <2> QED BY <1>4, <2>1, <2>2
  <1>8. Min(kept) \in Int /\ Min(kept) <= d
    <2>1. Min(kept) \in kept /\ \A m \in kept : Min(kept) <= m
      BY <1>3, <1>4, MinIs
    <2> QED BY <1>3, <1>4, <2>1
  <1>9. cal = Min(kept) .. d BY <1>4, <1>5, <1>7
  <1>10. Max(cal) = d
    <2>1. cal \in SUBSET Int /\ IsFiniteSet(cal) /\ d \in cal
      BY <1>0, <1>8, <1>9, FS_Interval
    <2>2. Max(cal) \in cal /\ \A m \in cal : m <= Max(cal) BY <2>1, MaxIs
    <2>3. Max(cal) \in Int /\ Max(cal) <= d /\ d <= Max(cal)
      BY <1>0, <1>8, <1>9, <2>1, <2>2
    <2> QED BY <1>0, <2>3
  <1>11. \A x \in cal : x > Max(cal) - 1 => x = d BY <1>0, <1>8, <1>9, <1>10
  <1> QED BY <1>6, <1>11 DEF h


LEMMA DaysFollow ==
    ASSUME NEW i \in Nat \ {0}, NEW j \in Nat \ {0}
    PROVE  /\ i <= j => Day(i) <= Day(j)
           /\ Day(i) < Day(j) => i < j
           /\ Day(i) \in Nat /\ Day(j) \in Nat
  <1>1. /\ Day(i) \in Nat /\ Day(j) \in Nat
        /\ j <= HoursPerDay * Day(j) + HoursPerDay /\ HoursPerDay * Day(j) < j
        /\ i <= HoursPerDay * Day(i) + HoursPerDay
    BY DayBounds
  <1>2. HoursPerDay * Day(j) + HoursPerDay \in Int
    <2>1. HoursPerDay \in Nat BY AnalyticsAssumption
    <2>2. HoursPerDay * Day(j) \in Int BY <1>1, <2>1
    <2> QED BY <2>1, <2>2
  <1>3. i <= j => Day(i) <= Day(j)
    <2> SUFFICES ASSUME i <= j PROVE Day(i) <= Day(j)
      OBVIOUS
    <2>1. i <= HoursPerDay * Day(j) + HoursPerDay BY <1>1, <1>2
    <2> QED BY <1>1, <2>1, DayIs
  <1>4. ASSUME Day(i) < Day(j), ~(i < j) PROVE FALSE
    <2>1. j <= i BY <1>4
    <2>2. i <= HoursPerDay * Day(i) + HoursPerDay BY <1>1
    <2>3. j <= HoursPerDay * Day(i) + HoursPerDay
      <3>1. HoursPerDay \in Nat BY AnalyticsAssumption
      <3>2. HoursPerDay * Day(i) \in Int BY <1>1, <3>1
      <3> QED BY <2>1, <2>2, <3>1, <3>2
    <2>4. Day(j) <= Day(i) BY <1>1, <2>3, DayIs
    <2> QED BY <1>1, <1>4, <2>4
  <1> QED BY <1>1, <1>3, <1>4

(* Hours that were seen before the day d, or first of all.                   *)
Prior(d, j) == j \in Seen /\ (Day(j) < d \/ \A i \in Seen : j <= i)

(* A daily report tells of no more than what was gained since any hour that  *)
(* was seen before its day.                                                  *)
LEMMA DailyGain ==
    ASSUME TypeOK, NeverFell, NEW d, ToldOf(d)
    PROVE  /\ NetChange(DailyReport(d), 1) \in Int
           /\ \E i \in Seen : /\ Day(i) = d
                              /\ \A j : Prior(d, j) =>
                                   NetChange(DailyReport(d), 1) <= history[i] - history[j]
  <1> DEFINE h == DailyReport(d)
             snap == Snapshots(h, WindowDays)
             by == ByDay(h, WindowDays)
             D == Reported(h, 1)
             net == NetChange(h, 1)
  <1>0. d \in Nat \ {0} /\ DailyHours(d) <= Len(history) BY DEF ToldOf
  <1>1. /\ Seen \in SUBSET (Nat \ {0})
        /\ \A i \in Seen : history[i] \in Int /\ Day(i) \in Nat
    BY SeenIs, DayBounds
  <1>2. h \in Seq(Counts \cup {None}) /\ DailyHours(d) \in Nat BY <1>0, DailyIs
  <1>3. IntegersOn(by, DOMAIN by) /\ Counted(by, D) /\ net = Gained(by, D)
    BY <1>2, ReportedIs
  <1>4. D \subseteq {d} BY DailyTells
  <1>5. \A i, j \in Seen : j <= i => history[j] <= history[i]
    BY <1>1 DEF NeverFell
  <1>6. \A i \in Seen : \A j : Prior(d, j) /\ Day(i) = d => j \in Seen /\ j <= i
    <2>1. \A i, j \in Seen : Day(j) < Day(i) => j < i BY <1>1, DaysFollow
    <2> QED BY <1>1, <2>1 DEF Prior
  <1>7. CASE D = {}
    <2>1. net = 0 BY <1>3, <1>7, GainedNone
    <2>2. PICK i \in Seen : Day(i) = d BY DEF ToldOf
    <2>3. ASSUME NEW j, Prior(d, j) PROVE net <= history[i] - history[j]
      <3>1. j \in Seen /\ history[j] <= history[i] BY <1>5, <1>6, <2>2, <2>3
      <3> QED BY <1>1, <2>1, <3>1
    <2> QED BY <2>1, <2>2, <2>3
  <1>8. CASE D = {d}
    <2> HIDE DEF by, net, D
    <2>1. d \in DOMAIN by /\ d - 1 \in DOMAIN by BY <1>3, <1>8 DEF Counted
    <2>2. net = by[d] - by[d - 1] /\ by[d] \in Int /\ by[d - 1] \in Int
      <3>1. IsFiniteSet(D) /\ d \in D /\ D \ {d} = {} BY <1>8, FS_Singleton
      <3>2. /\ Gained(by, D) = by[d] - by[d - 1] + Gained(by, D \ {d})
            /\ by[d] \in Int /\ by[d - 1] \in Int
        BY <1>3, <3>1, GainedStep
      <3>3. Gained(by, D \ {d}) = 0 BY <3>1, GainedNone
      <3> QED BY <1>3, <3>2, <3>3
    <2>3. \A e \in DOMAIN by :
            /\ \E i \in snap : Day(i) = e /\ by[e] = h[i]
            /\ \A i \in snap : Day(i) = e => h[i] <= by[e]
      <3>1. WindowDays \in Nat BY ReportsAssumption
      <3> QED BY <1>2, <3>1, ByDayIs DEF by
    <2>4. /\ \A i \in snap : i \in Seen /\ i <= DailyHours(d) /\ h[i] = history[i]
          /\ \A i \in Seen, k \in snap : k <= i /\ i <= DailyHours(d) => i \in snap
      BY DailySnapshots
    <2> HIDE DEF h, snap
    <2>5. PICK i \in snap : Day(i) = d /\ by[d] = history[i] BY <2>1, <2>3, <2>4
    <2>6. PICK k \in snap : Day(k) = d - 1 BY <2>1, <2>3
    <2>7. i \in Seen /\ k \in Seen /\ history[k] <= by[d - 1]
      BY <2>1, <2>3, <2>4, <2>6
    <2>8. ASSUME NEW j, Prior(d, j) PROVE net <= history[i] - history[j]
      <3>1. j \in Seen /\ j \in Nat /\ k \in Nat /\ i \in Nat BY <1>1, <2>7, <2>8 DEF Prior
      <3>2. history[j] <= by[d - 1]
        <4>1. CASE j <= k
          <5>1. history[j] <= history[k] BY <1>5, <2>7, <3>1, <4>1
          <5> QED BY <1>1, <2>2, <2>7, <3>1, <5>1
        <4>2. CASE ~(j <= k)
          <5>1. Day(j) < d BY <2>7, <2>8, <4>2 DEF Prior
          <5>2. k <= j BY <3>1, <4>2
          <5>3. Day(k) <= Day(j) BY <1>1, <2>7, <3>1, <5>2, DaysFollow
          <5>4. Day(j) = d - 1 BY <1>0, <1>1, <2>6, <3>1, <5>1, <5>3
          <5>5. j <= i BY <1>6, <2>5, <2>7, <2>8
          <5>6. j <= DailyHours(d) BY <1>2, <2>4, <3>1, <5>5
          <5>7. j \in snap BY <2>4, <3>1, <5>2, <5>6
          <5> QED BY <2>1, <2>3, <2>4, <5>4, <5>7
        <4> QED BY <4>1, <4>2
      <3> QED BY <1>1, <2>2, <2>5, <2>7, <3>1, <3>2
    <2>9. net \in Int BY <2>2
    <2> QED BY <2>5, <2>7, <2>8, <2>9 DEF net, h
  <1> QED BY <1>4, <1>7, <1>8


(* What the reports of the days of S say together.                           *)
Told(S) == Total([d \in S |-> NetChange(DailyReport(d), 1)])

LEMMA ToldStep ==
    ASSUME NEW S, IsFiniteSet(S), NEW d \in S,
           \A e \in S : NetChange(DailyReport(e), 1) \in Int
    PROVE  /\ Told(S) \in Int /\ Told(S \ {d}) \in Int
           /\ Told(S) = NetChange(DailyReport(d), 1) + Told(S \ {d})
  <1> DEFINE f == [e \in S |-> NetChange(DailyReport(e), 1)]
             R == S \ {d}
  <1>1. /\ DOMAIN f = S /\ \A e \in S : f[e] = NetChange(DailyReport(e), 1)
        /\ \A e \in R : f[e] = NetChange(DailyReport(e), 1)
    OBVIOUS
  <1>2. IntegersOn(f, DOMAIN f) BY <1>1 DEF IntegersOn
  <1>3. [e \in R |-> f[e]] = [e \in R |-> NetChange(DailyReport(e), 1)] BY <1>1
  <1>4. R = DOMAIN f \ {d} /\ IsFiniteSet(DOMAIN f) /\ d \in DOMAIN f BY <1>1
  <1>5. Told(S) = Total(f) /\ Told(R) = Total([e \in R |-> f[e]]) BY <1>3 DEF Told
  <1> HIDE DEF f, R
  <1>6. /\ Total(f) \in Int
        /\ Total([e \in R |-> f[e]]) \in Int
        /\ Total(f) = f[d] + Total([e \in R |-> f[e]])
    BY <1>2, <1>4, TotalStep
  <1> QED BY <1>1, <1>5, <1>6 DEF R

LEMMA ToldNone == Told({}) = 0
  <1> DEFINE f == [d \in {} |-> NetChange(DailyReport(d), 1)]
  <1>1. DOMAIN f = {} OBVIOUS
  <1> HIDE DEF f
  <1>2. Total(f) = 0 BY <1>1, TotalEmpty
  <1> QED BY <1>2 DEF f, Told

(* The reports of the days up to d add up to no more than was gained between *)
(* the first hour that was seen and some hour before the day after d.        *)
GainedBy(S, d) ==
    /\ Told(S) \in Int
    /\ \E i : Prior(d + 1, i) /\ Told(S) <= history[i] - history[Min(Seen)]

LEMMA DaysAddUp ==
    ASSUME TypeOK, Seen # {}, NeverFell, NEW days \in SUBSET (Nat \ {0}),
           IsFiniteSet(days), \A d \in days : ToldOf(d)
    PROVE  \A d \in Nat : GainedBy({e \in days : e <= d}, d)
  <1> DEFINE Below(d) == {e \in days : e <= d}
             D == {d \in Nat : GainedBy(Below(d), d)}
  <1>0. /\ Min(Seen) \in Seen /\ \A i \in Seen : Min(Seen) <= i
        /\ \A i \in Seen : history[i] \in Int /\ Day(i) \in Nat
    BY SeenIs, MinIs, DayBounds
  <1>1. 0 \in D
    <2>6. \A e \in days : e \in Nat /\ e # 0 OBVIOUS
    <2>7. \A e \in days : ~(e <= 0)
      <3> HIDE DEF D
      <3> QED BY <2>6
    <2>1. Below(0) = {} BY <2>7
    <2>2. Told(Below(0)) = 0 BY <2>1, ToldNone
    <2>3. Prior(0 + 1, Min(Seen)) BY <1>0 DEF Prior
    <2>4. 0 <= history[Min(Seen)] - history[Min(Seen)] BY <1>0
    <2> HIDE DEF Below
    <2>5. GainedBy(Below(0), 0) BY <2>2, <2>3, <2>4 DEF GainedBy
    <2> QED BY <2>5
  <1>2. ASSUME NEW d \in D PROVE d + 1 \in D
    <2>1. d \in Nat /\ d + 1 \in Nat OBVIOUS
    <2> DEFINE A == Below(d)
               B == Below(d + 1)
    <2>2. GainedBy(A, d) OBVIOUS
    <2>3. PICK i : Prior(d + 1, i) /\ Told(A) <= history[i] - history[Min(Seen)]
      BY <2>2 DEF GainedBy
    <2>4. Told(A) \in Int BY <2>2 DEF GainedBy
    <2>5. \A e \in days : e <= d + 1 <=> e <= d \/ e = d + 1 BY <2>1
    <2>6. CASE d + 1 \notin days
      <3>1. B = A BY <2>5, <2>6
      <3>2. i \in Seen /\ Prior(d + 2, i)
        <4>1. i \in Seen BY <2>3 DEF Prior
        <4>2. Day(i) < d + 1 => Day(i) < d + 2 BY <1>0, <2>1, <4>1
        <4> QED BY <2>3, <4>1, <4>2 DEF Prior
      <3>3. (d + 1) + 1 = d + 2 BY <2>1
      <3> HIDE DEF A, B
      <3>4. GainedBy(B, d + 1) BY <2>3, <2>4, <3>1, <3>2, <3>3 DEF GainedBy
      <3> QED BY <2>1, <3>4 DEF B
    <2>7. CASE d + 1 \in days
      <3> DEFINE net == NetChange(DailyReport(d + 1), 1)
      <3>1. A = B \ {d + 1} /\ d + 1 \in B /\ B \in SUBSET days
        <4>1. A \in SUBSET days /\ B \in SUBSET days OBVIOUS
        <4>2. d + 1 <= d + 1 /\ ~(d + 1 <= d) BY <2>1
        <4>3. \A e \in days : /\ e \in A <=> e <= d
                              /\ e \in B <=> e <= d + 1
          OBVIOUS
        <4>4. d + 1 \in B /\ d + 1 \notin A BY <2>7, <4>2, <4>3
        <4>5. \A e \in days : e # d + 1 => (e \in A <=> e \in B) BY <2>5, <4>3
        <4> HIDE DEF A, B
        <4>6. A = B \ {d + 1} BY <4>1, <4>4, <4>5
        <4> QED BY <4>1, <4>4, <4>6
      <3>2. IsFiniteSet(B) BY <3>1, FS_Subset
      <3>3. \A e \in B : NetChange(DailyReport(e), 1) \in Int BY <3>1, DailyGain
      <3> HIDE DEF A, B
      <3>4. Told(B) \in Int /\ Told(B) = net + Told(A) /\ net \in Int
        BY <3>1, <3>2, <3>3, ToldStep
      <3>5. ToldOf(d + 1) BY <2>7
      <3>6. PICK j \in Seen : /\ Day(j) = d + 1
                              /\ \A k : Prior(d + 1, k) => net <= history[j] - history[k]
        BY <3>5, DailyGain
      <3>7. net <= history[j] - history[i] BY <2>3, <3>6
      <3>8. i \in Seen BY <2>3 DEF Prior
      <3>9. Told(B) <= history[j] - history[Min(Seen)]
        <4> HIDE DEF net
        <4> QED BY <1>0, <2>3, <2>4, <3>4, <3>6, <3>7, <3>8
      <3>10. Prior((d + 1) + 1, j) BY <2>1, <3>6 DEF Prior
      <3>11. GainedBy(B, d + 1) BY <3>4, <3>9, <3>10 DEF GainedBy
      <3> QED BY <2>1, <3>11 DEF B
    <2> QED BY <2>6, <2>7
  <1>3. D = Nat
    <2> HIDE DEF D
    <2>1. D \in SUBSET Nat BY DEF D
    <2> QED BY <1>1, <1>2, <2>1, Climb
  <1> QED BY <1>3

(* DailyReportsAddUp: while the followers do not fall, the daily reports,    *)
(* each of a day that was observed before it was made, never tell of more    *)
(* new followers between them than there were, however hours that were not   *)
(* observed fall between the days.                                           *)
THEOREM DailyReportsAlwaysAddUp == Spec => []DailyReportsAddUp
  <1>1. TypeOK => DailyReportsAddUp
    <2> SUFFICES ASSUME TypeOK PROVE DailyReportsAddUp
      OBVIOUS
    <2> DEFINE last == Day(Len(history))
               days == {d \in 1 .. last : DailyHours(d) <= Len(history)}
    <2>1. SUFFICES ASSUME Seen # {}, NeverFell,
                          \A d \in days : \E i \in Seen : Day(i) = d /\ i <= DailyHours(d)
                   PROVE  Told(days) <= history[Max(Seen)] - history[Min(Seen)]
      BY DEF DailyReportsAddUp, Seen, NeverFell, DailyHours, Told
    <2>2. /\ DOMAIN history = 1 .. Len(history) /\ Len(history) \in Nat
          /\ Seen \in SUBSET Int /\ IsFiniteSet(Seen)
          /\ Seen \subseteq DOMAIN history
          /\ \A i \in Seen : history[i] \in Int
      BY SeenIs DEF Seen
    <2>3. Len(history) \in Nat \ {0}
      <3>1. PICK i \in Seen : TRUE BY <2>1
      <3>2. i \in 1 .. Len(history) BY <2>2
      <3> QED BY <2>2, <3>2
    <2>4. last \in Nat BY <2>3, DayBounds
    <2> HIDE DEF last
    <2>5. days \in SUBSET (Nat \ {0}) /\ IsFiniteSet(days)
      <3>1. IsFiniteSet(1 .. last) BY <2>4, FS_Interval
      <3>2. days \in SUBSET (1 .. last) OBVIOUS
      <3> QED BY <2>4, <3>1, <3>2, FS_Subset
    <2>6. \A d \in days : ToldOf(d)
      <3> QED BY <2>1, <2>5 DEF ToldOf
    <2>7. days = {e \in days : e <= last} BY <2>4
    <2> HIDE DEF days
    <2>8. GainedBy(days, last)
      <3>1. \A d \in Nat : GainedBy({e \in days : e <= d}, d)
        BY <2>1, <2>5, <2>6, DaysAddUp
      <3> QED BY <2>4, <2>7, <3>1
    <2>9. PICK i \in Seen : Told(days) <= history[i] - history[Min(Seen)]
      BY <2>8 DEF GainedBy, Prior
    <2>10. Told(days) \in Int BY <2>8 DEF GainedBy
    <2>11. /\ Max(Seen) \in Seen /\ i <= Max(Seen)
           /\ Min(Seen) \in Seen
      BY <2>1, <2>2, MaxIs, MinIs
    <2>12. history[i] <= history[Max(Seen)]
      <3>1. CASE i = Max(Seen)
        <4>1. history[i] \in Int BY <2>2
        <4> QED BY <3>1, <4>1
      <3>2. CASE i # Max(Seen)
        <4>1. i < Max(Seen)
          <5>1. i \in Int /\ Max(Seen) \in Int BY <2>2, <2>11
          <5> QED BY <2>11, <3>2, <5>1
        <4> QED BY <2>1, <2>11, <4>1 DEF NeverFell
      <3> QED BY <3>1, <3>2
    <2>13. /\ history[i] \in Int /\ history[Max(Seen)] \in Int
           /\ history[Min(Seen)] \in Int
      BY <2>2, <2>11
    <2> QED BY <2>9, <2>10, <2>12, <2>13
  <1> QED BY <1>1, Typing, PTL
=============================================================================
