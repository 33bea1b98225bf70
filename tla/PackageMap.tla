----------------------------- MODULE PackageMap -----------------------------
(***************************************************************************)
(* From the NSRL tables to the records of an import: which schema the      *)
(* database has, the package details loaded from it, and the row of each   *)
(* file with the details of its package (cmd/etl).                         *)
(*                                                                         *)
(* A table is a set of rows, a query the set of rows it selects.  SQLite   *)
(* takes the columns of a GROUP BY that are not aggregated from any one    *)
(* row of the group, so a query may have several legal results.  A text is *)
(* a number, in SQLite's order of texts, and "" is the least of them.      *)
(***************************************************************************)
EXTENDS Naturals, Sequences, FiniteSetsExt

CONSTANT Null   \* SQL's NULL, which is no text and no name

ASSUME NullAssumption == Null \notin Nat /\ Null \notin Seq(Nat)

EmptyText == 0

Coalesce(x, y) == IF x = Null THEN y ELSE x
OrEmpty(x)     == Coalesce(x, EmptyText)

\* MIN of a group passes over NULLs; without a row, LEFT JOIN gives NULL.
MinText(texts) == IF texts \subseteq {Null} THEN Null ELSE Min(texts \ {Null})

\* The nested COALESCE and NULLIF of the version columns.
FirstFilled(texts) ==
  LET filled == {i \in DOMAIN texts : texts[i] \notin {Null, EmptyText}}
  IN  IF filled = {} THEN EmptyText ELSE texts[Min(filled)]
-----------------------------------------------------------------------------
ModernTables == { "METADATA", "PACKAGE_OBJECT", "APPLICATION",
  "APPLICATION_APPLICATION_TYPE", "APPLICATION_TYPE", "MANUFACTURER_APPLICATION",
  "MANUFACTURER", "OPERATING_SYSTEM_APPLICATION", "OPERATING_SYSTEM",
  "APPLICATION_LANGUAGE", "LANGUAGE" }
MinimalTables == {"FILE", "PKG", "MFG", "OS"}

DetectSchema(tables) ==
  IF "METADATA" \in tables THEN "modern"
  ELSE IF "FILE" \in tables THEN "minimal" ELSE "none"

\* Anything else ends in log.Fatal, here or in loadPackageMap.
Loads(tables) ==
  CASE DetectSchema(tables) = "modern"  -> ModernTables \subseteq tables
    [] DetectSchema(tables) = "minimal" -> MinimalTables \subseteq tables
    [] OTHER -> FALSE
-----------------------------------------------------------------------------
(* Mutant of OfApplication: the subqueries are not grouped.                *)
OfAnyApplication(rows, a) == rows

\* The rows of a link table, joined with what they link to, for application a.
OfApplication(rows, a) == {r \in rows : r.application = a.application}

\* The columns a row of pkgQueryModern takes from application a.
ModernInfo(db, a) ==
  LET Least(rows)  == OrEmpty(MinText({r.name : r \in OfApplication(rows, a)}))
      versions     == {r.version : r \in OfApplication(db.systems, a)}
  IN  [ appName |-> OrEmpty(a.name), appVersion |-> FirstFilled(a.versions),
        appType |-> Least(db.types), manufacturer |-> Least(db.makers),
        osName |-> Least(db.systems), osVersion |-> OrEmpty(MinText(versions)),
        language |-> Least(db.languages) ]

(* Mutant of MinimalInfo: two columns are selected in the wrong order.     *)
MinimalInfoSwapped(p) ==
  [ appName |-> OrEmpty(p.name), appVersion |-> OrEmpty(p.version),
    appType |-> OrEmpty(p.type), manufacturer |-> OrEmpty(p.maker),
    osName |-> OrEmpty(p.osVersion), osVersion |-> OrEmpty(p.osName),
    language |-> OrEmpty(p.language) ]

\* The columns a row of pkgQueryMinimal takes from the row p of PKG.
MinimalInfo(p) ==
  [ appName |-> OrEmpty(p.name), appVersion |-> OrEmpty(p.version),
    appType |-> OrEmpty(p.type), manufacturer |-> OrEmpty(p.maker),
    osName |-> OrEmpty(p.osName), osVersion |-> OrEmpty(p.osVersion),
    language |-> OrEmpty(p.language) ]

\* What loadPackageMap may return; a group whose id is NULL does not scan.
PackageMaps(schema, db) ==
  LET rows == IF schema = "minimal" THEN db.packages
              ELSE {a \in db.applications : \E o \in db.objects : o.package = a.package}
      ids  == {r.package : r \in rows} \ {Null}
      Info(r) == IF schema = "minimal" THEN MinimalInfo(r) ELSE ModernInfo(db, r)
  IN  { [id \in ids |-> Info(pick[id])] :
          pick \in {f \in [ids -> rows] : \A id \in ids : f[id].package = id} }
-----------------------------------------------------------------------------
NoPackage == 0   \* COALESCE(po.package_id, 0)

\* A name is the sequence of its parts; NULL || x is NULL.
FileName(f) ==
  IF f.name = Null THEN Null
  ELSE IF f.extension \in {EmptyText, Null} THEN <<f.name>> ELSE <<f.name, f.extension>>

\* The packages that PACKAGE_OBJECT links file f to.
LinksOf(db, f) == {o.package : o \in {o \in db.objects : o.object = f.object}}

(* Mutant of PackagesOf: JOIN instead of LEFT JOIN.                        *)
PackagesOfJoined(db, f) == LinksOf(db, f)

\* METADATA LEFT JOIN PACKAGE_OBJECT.
PackagesOf(db, f) ==
  IF LinksOf(db, f) = {} THEN {NoPackage}
  ELSE {Coalesce(p, NoPackage) : p \in LinksOf(db, f)}

\* metaQueryModern and metaQueryMinimal; hashes stands for the four hash columns.
FileRows(schema, db) ==
  IF schema = "minimal"
    THEN { [hashes |-> f.hashes, name |-> f.name, size |-> f.size, path |-> EmptyText,
            package |-> f.package] : f \in db.files }
    ELSE UNION { { [hashes |-> f.hashes, name |-> FileName(f), size |-> f.size,
                    path |-> OrEmpty(f.path), package |-> p] : p \in PackagesOf(db, f) }
                 : f \in db.files }

\* rows.Scan refuses a NULL for a Go string or int64; streamRows goes on.
Scans(row) == row.hashes # Null /\ row.name # Null /\ row.size # Null /\ row.package # Null

Streamed(schema, db) == {row \in FileRows(schema, db) : Scans(row)}

NoInfo == [ appName |-> EmptyText, appVersion |-> EmptyText, appType |-> EmptyText,
            manufacturer |-> EmptyText, osName |-> EmptyText, osVersion |-> EmptyText,
            language |-> EmptyText ]

\* The package fields serializeRow gives a row.
InfoOf(row, packageMap) ==
  IF row.package \in DOMAIN packageMap THEN packageMap[row.package] ELSE NoInfo

\* The sets of records an import of these tables may come to.
Imports(tables, db) ==
  LET schema == DetectSchema(tables) IN
  { { [row |-> row, info |-> InfoOf(row, m)] : row \in Streamed(schema, db) }
    : m \in IF Loads(tables) THEN PackageMaps(schema, db) ELSE {} }
-----------------------------------------------------------------------------
\* Some row of a link table says text of application a, or none says anything.
SaidOf(a, rows, text) ==
  LET said == {r.name : r \in {r \in rows : r.application = a.application}} \ {Null}
  IN  text \in said \/ (said = {} /\ text = EmptyText)

Describes(info, a, db) ==
  /\ info.appName = OrEmpty(a.name)
  /\ IF \E i \in DOMAIN a.versions : a.versions[i] \notin {Null, EmptyText}
       THEN info.appVersion # EmptyText /\ \E i \in DOMAIN a.versions : info.appVersion = a.versions[i]
       ELSE info.appVersion = EmptyText
  /\ SaidOf(a, db.types, info.appType) /\ SaidOf(a, db.makers, info.manufacturer)
  /\ SaidOf(a, db.languages, info.language) /\ SaidOf(a, db.systems, info.osName)
  /\ LET systems == {s \in db.systems : s.application = a.application}
     IN  Cardinality(systems) = 1 => \A s \in systems : info.osVersion = OrEmpty(s.version)

(* What a record says of its package is said of one application of it: its *)
(* name, a version, a type, a manufacturer, a language and the name of a   *)
(* system, all of that one application.  So is the system's version if the *)
(* application has one system only; with more, MIN(os.name) and            *)
(* MIN(os.version) may come from two of them (etl/main.go:210).            *)
DetailsGenuine(tables, db) ==
  ModernTables \subseteq tables =>
    \A records \in Imports(tables, db) : \A r \in records :
      r.info # NoInfo => \E a \in db.applications :
                           a.package = r.row.package /\ Describes(r.info, a, db)

(* No file is left out for what it is linked to: one that has its hashes,  *)
(* name and size is imported once for each of its packages, and once       *)
(* without details when it has none (etl/main.go:283-285, 328).            *)
FilesKept(tables, db) ==
  ModernTables \subseteq tables =>
    \A records \in Imports(tables, db), f \in db.files :
      f.hashes # Null /\ f.name # Null /\ f.size # Null =>
        LET links == {Coalesce(p, NoPackage) : p \in LinksOf(db, f)}
        IN  {r.row.package : r \in {r \in records : r.row.hashes = f.hashes}}
              = IF links = {} THEN {NoPackage} ELSE links

\* A modern database that the flat tables can express, and how they do it.
IsFlat(db) ==
  /\ \A o \in db.objects : o.package # Null
  /\ \A a, b \in db.applications : a.package = b.package => a = b
  /\ \A a \in db.applications : a.versions[1] \notin {Null, EmptyText}
  /\ \A rows \in {db.types, db.makers, db.systems, db.languages} :
       \A r, s \in rows : r.application = s.application => r = s

Flatten(db) ==
  LET Row(rows, a) == {r \in rows : r.application = a.application}
      Name(rows, a) == IF Row(rows, a) = {} THEN Null ELSE (CHOOSE r \in Row(rows, a) : TRUE).name
  IN  [ packages |->
          { [ package |-> a.package, name |-> a.name, version |-> a.versions[1],
              type |-> Name(db.types, a), maker |-> Name(db.makers, a),
              osName |-> Name(db.systems, a), language |-> Name(db.languages, a),
              osVersion |-> IF Row(db.systems, a) = {} THEN Null
                            ELSE (CHOOSE r \in Row(db.systems, a) : TRUE).version ]
            : a \in db.applications },
        files |->
          UNION { { [hashes |-> f.hashes, name |-> FileName(f), size |-> f.size, package |-> p]
                    : p \in IF LinksOf(db, f) = {} THEN {Null} ELSE LinksOf(db, f) }
                  : f \in db.files } ]

(* The two schemas are two ways to write the same data: flattened, a       *)
(* modern database gives the same records, up to the path, which FILE does *)
(* not have, and the files without a package, whose row does not scan      *)
(* because package_id is the one column the minimal query does not         *)
(* coalesce (etl/main.go:297, 328).                                        *)
SchemasAgree(tables, db) ==
  IsFlat(db) /\ ModernTables \subseteq tables =>
    Imports(MinimalTables, Flatten(db))
      = { { [row |-> [r.row EXCEPT !.path = EmptyText], info |-> r.info]
            : r \in {r \in records : r.row.package # NoPackage} }
          : records \in Imports(tables, db) }
=============================================================================
