---------------------------- MODULE RecordsProofs ----------------------------
(***************************************************************************)
(* The server and the importer agree on keys, for every set of byte        *)
(* strings and every length; and the records of an import are what the     *)
(* tables say, for every database.                                         *)
(***************************************************************************)
EXTENDS MCRecords, Induction

(* A key determines its prefix byte and its bytes.                         *)
LEMMA MakeKeyInjective ==
  ASSUME NEW p, NEW raw, NEW q, NEW other, MakeKey(p, raw) = MakeKey(q, other)
  PROVE  p = q /\ raw = other
<1>1. MakeKey(p, raw)[1] = p /\ MakeKey(p, raw)[2] = raw
  BY DEF MakeKey
<1>2. MakeKey(q, other)[1] = q /\ MakeKey(q, other)[2] = other
  BY DEF MakeKey
<1> QED
  BY <1>1, <1>2

(* A length belongs to at most one kind of hash: the widths differ.        *)
LEMMA WidthsDiffer ==
  ASSUME NEW n, NEW j \in KindsOfLength(n), NEW k \in KindsOfLength(n)
  PROVE  j = k
BY DEF KindsOfLength, HashKinds, Width

(* The key of a text is determined by the kind its length selects.         *)
LEMMA KeyOfKind ==
  ASSUME NEW t \in Text, NEW k \in HashKinds,
         t.raw \in Raw, ByteLen[t.raw] = Width[k]
  PROVE  HashToKey(t) = MakeKey(Prefix[k], t.raw)
<1> DEFINE K == KindsOfLength(ByteLen[t.raw])
<1>1. k \in K
  BY DEF KindsOfLength
<1>2. (CHOOSE j \in K : TRUE) = k
  BY <1>1, WidthsDiffer
<1>3. DecodeString(ToLower(TrimSpace(t))) = t.raw
  BY DEF DecodeString, ToLower, TrimSpace, Text
<1> QED
  BY <1>1, <1>2, <1>3, RawAssumption DEF HashToKey

(* A text has a key only if its bytes are a hash: of the width of a kind.  *)
LEMMA KeyHasKind ==
  ASSUME NEW t \in Text, HashToKey(t) # NoKey
  PROVE  t.raw \in Raw /\ \E k \in HashKinds : ByteLen[t.raw] = Width[k]
<1>1. DecodeString(ToLower(TrimSpace(t))) = t.raw
  BY DEF DecodeString, ToLower, TrimSpace, Text
<1>2. t.raw # NotHex /\ KindsOfLength(ByteLen[t.raw]) # {}
  BY <1>1 DEF HashToKey
<1> QED
  BY <1>2 DEF KindsOfLength, Text

(* Every spelling of an imported hash gets the key it was imported under,  *)
(* whatever its case and the white space around it.                        *)
THEOREM EverySpellingReachable ==
  \A k \in HashKinds : \A held, asked \in Text : Reachable(k, held, asked)
<1> SUFFICES ASSUME NEW k \in HashKinds, NEW held \in Text, NEW asked \in Text,
                    held.raw \in Raw, ~held.padded,
                    ByteLen[held.raw] = Width[k], asked.raw = held.raw
             PROVE  HashToKey(asked) = CellKey(k, held)
  BY DEF Reachable
<1>1. HashToKey(asked) = MakeKey(Prefix[k], held.raw)
  BY KeyOfKind
<1>2. DecodeString(held) = held.raw /\ held.raw # NotHex
  BY RawAssumption DEF DecodeString
<1>3. ~IsEmpty(held)
  <2>1. Width[k] # 0
    BY DEF Width, HashKinds
  <2> QED
    BY <2>1 DEF IsEmpty, IsBlank
<1> QED
  BY <1>1, <1>2, <1>3 DEF CellKey

(* A query and a cell share a key only if they are the same bytes and the  *)
(* cell stands in the column for hashes of their length.                   *)
THEOREM HitsAreGenuine ==
  \A k \in HashKinds : \A held, asked \in Text : NoCrossHit(k, held, asked)
<1> SUFFICES ASSUME NEW k \in HashKinds, NEW held \in Text, NEW asked \in Text,
                    HashToKey(asked) # NoKey, HashToKey(asked) = CellKey(k, held)
             PROVE  asked.raw = held.raw /\ ByteLen[held.raw] = Width[k]
  BY DEF NoCrossHit
<1>1. PICK j \in HashKinds : asked.raw \in Raw /\ ByteLen[asked.raw] = Width[j]
  BY KeyHasKind
<1>2. HashToKey(asked) = MakeKey(Prefix[j], asked.raw)
  BY <1>1, KeyOfKind
<1>3. CellKey(k, held) = MakeKey(Prefix[k], held.raw)
  BY DEF CellKey, DecodeString
<1>4. Prefix[j] = Prefix[k] /\ asked.raw = held.raw
  <2>1. MakeKey(Prefix[j], asked.raw) = MakeKey(Prefix[k], held.raw)
    BY <1>2, <1>3
  <2> QED
    BY <2>1, MakeKeyInjective
<1>5. j = k
  BY <1>4 DEF Prefix, HashKinds
<1> QED
  BY <1>1, <1>4, <1>5
-----------------------------------------------------------------------------
\* A text column's value, and a database as sqlite3 gives it.
Texts == Nat \cup {Null}

Typed(d) ==
  /\ \A a \in d.applications : a.name \in Texts /\ DOMAIN a.versions = 1..4
  /\ \A o \in d.objects : o.package # NoPackage
  /\ \A rows \in {d.types, d.makers, d.languages, d.systems} : \A r \in rows :
       r.name \in Texts /\ r.version \in Texts
  /\ IsFiniteSet(d.systems)
  /\ \A f \in d.files : f.name \in Texts /\ f.extension \in Texts
  /\ \A f, g \in d.files : f.hashes = g.hashes /\ f.hashes # Null => f.object = g.object

(* The least text of a group is one of its texts; none is "".              *)
LEMMA LeastText ==
  ASSUME NEW texts, texts \subseteq Texts
  PROVE  /\ texts \ {Null} # {} => OrEmpty(MinText(texts)) \in texts \ {Null}
         /\ texts \ {Null} = {} => OrEmpty(MinText(texts)) = EmptyText
<1>1. CASE texts \ {Null} = {}
  <2>1. texts \subseteq {Null}
    BY <1>1
  <2> QED
    BY <1>1, <2>1 DEF MinText, OrEmpty, Coalesce
<1>2. CASE texts \ {Null} # {}
  <2> DEFINE T == texts \ {Null}
  <2>1. T \subseteq Nat /\ T # {}
    BY <1>2 DEF Texts
  <2> HIDE DEF T
  <2>2. \E x \in T : \A y \in T : x <= y
    BY <2>1, LeastNatural
  <2>3. Min(T) \in T
    BY <2>2, Zenon DEF Min
  <2>4. MinText(texts) = Min(T)
    <3>1. ~ (texts \subseteq {Null})
      BY <1>2
    <3> QED
      BY <3>1 DEF MinText, T
  <2> QED
    BY <1>2, <2>3, <2>4, NullAssumption DEF OrEmpty, Coalesce, T
<1> QED
  BY <1>1, <1>2

(* The version is one of the version columns that are filled, or "".       *)
LEMMA FilledVersion ==
  ASSUME NEW texts, DOMAIN texts \subseteq Nat
  PROVE  IF \E i \in DOMAIN texts : texts[i] \notin {Null, EmptyText}
           THEN /\ FirstFilled(texts) # EmptyText
                /\ \E i \in DOMAIN texts : FirstFilled(texts) = texts[i]
           ELSE FirstFilled(texts) = EmptyText
<1> DEFINE filled == {i \in DOMAIN texts : texts[i] \notin {Null, EmptyText}}
<1>1. CASE filled = {}
  BY <1>1 DEF FirstFilled
<1>2. CASE filled # {}
  <2>1. filled \subseteq Nat
    OBVIOUS
  <2>2. FirstFilled(texts) = texts[Min(filled)]
    BY <1>2 DEF FirstFilled
  <2>3. Min(filled) \in filled
    <3> HIDE DEF filled
    <3>1. \E x \in filled : \A y \in filled : x <= y
      BY <1>2, <2>1, LeastNatural
    <3> QED
      BY <3>1, Zenon DEF Min
  <2> QED
    BY <2>2, <2>3
<1> QED
  BY <1>1, <1>2

(* What a group of link rows says is said by one of them.                  *)
LEMMA LeastSaid ==
  ASSUME NEW a, NEW rows, \A r \in rows : r.name \in Texts
  PROVE  SaidOf(a, rows, OrEmpty(MinText({r.name : r \in OfApplication(rows, a)})))
<1> DEFINE texts == {r.name : r \in OfApplication(rows, a)}
<1>1. texts \subseteq Texts
  BY DEF OfApplication
<1>2. SaidOf(a, rows, OrEmpty(MinText(texts)))
        = \/ OrEmpty(MinText(texts)) \in texts \ {Null}
          \/ texts \ {Null} = {} /\ OrEmpty(MinText(texts)) = EmptyText
  BY DEF SaidOf, OfApplication
<1> HIDE DEF texts
<1>3. \/ OrEmpty(MinText(texts)) \in texts \ {Null}
      \/ texts \ {Null} = {} /\ OrEmpty(MinText(texts)) = EmptyText
  BY <1>1, LeastText
<1> QED
  BY <1>2, <1>3 DEF texts

(* A row of the package query describes the application it is made of.     *)
LEMMA ModernDescribes ==
  ASSUME NEW d, Typed(d), NEW a \in d.applications
  PROVE  Describes(ModernInfo(d, a), a, d)
<1> DEFINE info == ModernInfo(d, a)
           Least(rows) == OrEmpty(MinText({r.name : r \in OfApplication(rows, a)}))
           versions == {r.version : r \in OfApplication(d.systems, a)}
           systems == {s \in d.systems : s.application = a.application}
<1>1. /\ info.appName = OrEmpty(a.name) /\ info.appVersion = FirstFilled(a.versions)
      /\ info.appType = Least(d.types) /\ info.manufacturer = Least(d.makers)
      /\ info.language = Least(d.languages) /\ info.osName = Least(d.systems)
      /\ info.osVersion = OrEmpty(MinText(versions))
  BY DEF ModernInfo
<1>2. /\ SaidOf(a, d.types, Least(d.types)) /\ SaidOf(a, d.makers, Least(d.makers))
      /\ SaidOf(a, d.languages, Least(d.languages)) /\ SaidOf(a, d.systems, Least(d.systems))
  <2>1. ASSUME NEW rows \in {d.types, d.makers, d.languages, d.systems}
        PROVE  SaidOf(a, rows, Least(rows))
    <3>1. \A r \in rows : r.name \in Texts
      BY DEF Typed
    <3> QED
      BY <3>1, LeastSaid
  <2> HIDE DEF Least
  <2> QED
    BY <2>1
<1>3. ASSUME Cardinality(systems) = 1, NEW s \in systems
      PROVE  OrEmpty(MinText(versions)) = OrEmpty(s.version)
  <2>1. systems = {s}
    <3>1. IsFiniteSet(systems)
      <4>1. IsFiniteSet(d.systems) /\ systems \subseteq d.systems
        BY DEF Typed
      <4> QED
        BY <4>1, FS_Subset
    <3> HIDE DEF systems
    <3>2. \E x : systems = {x}
      BY <1>3, <3>1, FS_Singleton
    <3> QED
      BY <1>3, <3>2
  <2>2. versions = {s.version}
    BY <2>1 DEF OfApplication
  <2>3. s.version \in Texts
    BY DEF Typed
  <2> HIDE DEF versions
  <2>4. versions \subseteq Texts
    BY <2>2, <2>3
  <2>5. CASE s.version = Null
    BY <2>2, <2>4, <2>5, LeastText DEF OrEmpty, Coalesce
  <2>6. CASE s.version # Null
    <3>1. versions \ {Null} = {s.version}
      BY <2>2, <2>6
    <3>2. OrEmpty(MinText(versions)) = s.version
      BY <2>4, <3>1, LeastText
    <3> QED
      BY <2>6, <3>2 DEF OrEmpty, Coalesce
  <2> QED
    BY <2>5, <2>6
<1>4. DOMAIN a.versions \subseteq Nat
  <2>1. DOMAIN a.versions = 1..4
    BY DEF Typed
  <2> QED
    BY <2>1
<1>5. IF \E i \in DOMAIN a.versions : a.versions[i] \notin {Null, EmptyText}
        THEN /\ FirstFilled(a.versions) # EmptyText
             /\ \E i \in DOMAIN a.versions : FirstFilled(a.versions) = a.versions[i]
        ELSE FirstFilled(a.versions) = EmptyText
  BY <1>4, FilledVersion
<1> HIDE DEF info, Least, versions
<1>6. Describes(info, a, d)
  BY <1>1, <1>2, <1>3, <1>5 DEF Describes
<1> QED
  BY <1>6 DEF info

(* A table set with the modern tables has the modern schema.               *)
LEMMA Modern ==
  ASSUME NEW have, ModernTables \subseteq have
  PROVE  DetectSchema(have) = "modern"
BY DEF ModernTables, DetectSchema

(* Whatever map of the packages is loaded, a record with details has those *)
(* of one application of its file's package.                               *)
THEOREM DetailsAreGenuine ==
  ASSUME NEW d, Typed(d), NEW have
  PROVE  DetailsGenuine(have, d)
<1> SUFFICES ASSUME ModernTables \subseteq have,
                    NEW records \in Imports(have, d), NEW r \in records, r.info # NoInfo
             PROVE  \E a \in d.applications : a.package = r.row.package /\ Describes(r.info, a, d)
  BY DEF DetailsGenuine
<1>1. DetectSchema(have) = "modern"
  BY Modern
<1>2. PICK m \in PackageMaps("modern", d) :
        records = {[row |-> row, info |-> InfoOf(row, m)] : row \in Streamed("modern", d)}
  BY <1>1, Zenon DEF Imports
<1>3. PICK row \in Streamed("modern", d) : r = [row |-> row, info |-> InfoOf(row, m)]
  BY <1>2
<1>4. r.row = row /\ r.info = InfoOf(row, m)
  BY <1>3
<1>5. row.package \in DOMAIN m /\ r.info = m[row.package]
  BY <1>4 DEF InfoOf
<1> DEFINE rows == {a \in d.applications : \E o \in d.objects : o.package = a.package}
           ids  == {a.package : a \in rows} \ {Null}
<1>6. PICK pick \in [ids -> rows] : /\ \A id \in ids : pick[id].package = id
                                    /\ m = [id \in ids |-> ModernInfo(d, pick[id])]
  <2> DEFINE Picks == {f \in [ids -> rows] : \A id \in ids : f[id].package = id}
             Of(pick) == [id \in ids |-> ModernInfo(d, pick[id])]
  <2>1. PackageMaps("modern", d) = {Of(pick) : pick \in Picks}
    BY DEF PackageMaps
  <2> HIDE DEF Of
  <2>2. \E pick \in Picks : m = Of(pick)
    BY <1>2, <2>1
  <2> QED
    BY <2>2 DEF Of
<1>7. row.package \in ids /\ r.info = ModernInfo(d, pick[row.package])
  BY <1>5, <1>6
<1>8. pick[row.package] \in d.applications /\ pick[row.package].package = row.package
  BY <1>6, <1>7
<1> QED
  BY <1>4, <1>7, <1>8, ModernDescribes-----------------------------------------------------------------------------
\* The row of file f for package p, and the same of the minimal schema.
Row(f, p) == [hashes |-> f.hashes, name |-> FileName(f), size |-> f.size,
              path |-> OrEmpty(f.path), package |-> p]
Row0(f, p) == [hashes |-> f.hashes, name |-> FileName(f), size |-> f.size,
               path |-> EmptyText, package |-> p]

\* Nothing of it is NULL that a row needs.
Whole(f) == f.hashes # Null /\ FileName(f) # Null /\ f.size # Null

(* A file that has a name has one with its extension.                      *)
LEMMA Named ==
  ASSUME NEW f, f.name \in Texts, f.extension \in Texts, f.name # Null
  PROVE  FileName(f) # Null
<1>1. f.name \in Nat
  BY DEF Texts
<1>2. CASE f.extension \in {EmptyText, Null}
  <2>1. FileName(f) = <<f.name>>
    BY <1>2 DEF FileName
  <2>2. <<f.name>> \in Seq(Nat)
    BY <1>1
  <2> QED
    BY <2>1, <2>2, NullAssumption
<1>3. CASE f.extension \notin {EmptyText, Null}
  <2>1. FileName(f) = <<f.name, f.extension>>
    BY <1>3 DEF FileName
  <2>2. f.extension \in Nat
    BY <1>3 DEF Texts
  <2>3. <<f.name, f.extension>> \in Seq(Nat)
    BY <1>1, <2>2
  <2> QED
    BY <2>1, <2>3, NullAssumption
<1> QED
  BY <1>2, <1>3

(* The rows of the modern query that scan: of every whole file, one for    *)
(* each of its packages.                                                   *)
LEMMA ModernRows ==
  ASSUME NEW d, NEW x
  PROVE  x \in Streamed("modern", d) <=>
           \E f \in d.files : Whole(f) /\ \E p \in PackagesOf(d, f) : x = Row(f, p)
<1>1. x \in FileRows("modern", d) <=> \E f \in d.files : \E p \in PackagesOf(d, f) : x = Row(f, p)
  BY DEF FileRows, Row
<1>2. ASSUME NEW f, NEW p \in PackagesOf(d, f) PROVE p # Null
  BY NullAssumption DEF PackagesOf, Coalesce, NoPackage
<1>3. ASSUME NEW f, NEW p, p # Null PROVE Scans(Row(f, p)) <=> Whole(f)
  BY <1>3 DEF Scans, Row, Whole
<1> QED
  BY <1>1, <1>2, <1>3 DEF Streamed

(* No file is left out for what it is linked to, whatever the tables hold. *)
THEOREM EveryFileKept ==
  ASSUME NEW d, Typed(d), NEW have
  PROVE  FilesKept(have, d)
<1> SUFFICES ASSUME ModernTables \subseteq have, NEW records \in Imports(have, d),
                    NEW f \in d.files, f.hashes # Null, f.name # Null, f.size # Null
             PROVE  {r.row.package : r \in {r \in records : r.row.hashes = f.hashes}}
                      = PackagesOf(d, f)
  <2>1. \A f \in d.files :
          PackagesOf(d, f) = LET links == {Coalesce(p, NoPackage) : p \in LinksOf(d, f)}
                             IN  IF links = {} THEN {NoPackage} ELSE links
    BY DEF PackagesOf
  <2> QED
    BY <2>1 DEF FilesKept
<1>1. PICK m \in PackageMaps("modern", d) :
        records = {[row |-> row, info |-> InfoOf(row, m)] : row \in Streamed("modern", d)}
  BY Modern, Zenon DEF Imports
<1>2. ASSUME NEW r \in records, r.row.hashes = f.hashes
      PROVE  r.row.package \in PackagesOf(d, f)
  <2>1. r.row \in Streamed("modern", d)
    BY <1>1
  <2>2. PICK g \in d.files : \E p \in PackagesOf(d, g) : r.row = Row(g, p)
    BY <2>1, ModernRows
  <2>3. PICK p \in PackagesOf(d, g) : r.row = Row(g, p)
    BY <2>2
  <2>4. g.hashes = f.hashes /\ r.row.package = p
    BY <1>2, <2>3 DEF Row
  <2>5. g.object = f.object
    BY <2>4 DEF Typed
  <2>6. PackagesOf(d, g) = PackagesOf(d, f)
    BY <2>5 DEF PackagesOf, LinksOf
  <2> QED
    BY <2>4, <2>6
<1>3. ASSUME NEW p \in PackagesOf(d, f)
      PROVE  \E r \in records : r.row.hashes = f.hashes /\ r.row.package = p
  <2> DEFINE r == [row |-> Row(f, p), info |-> InfoOf(Row(f, p), m)]
  <2>1. Whole(f)
    <3>1. f.name \in Texts /\ f.extension \in Texts
      BY DEF Typed
    <3> QED
      BY <3>1, Named DEF Whole
  <2>2. Row(f, p) \in Streamed("modern", d)
    BY <2>1, ModernRows
  <2>3. r \in records
    BY <1>1, <2>2
  <2>4. r.row = Row(f, p) /\ Row(f, p).hashes = f.hashes /\ Row(f, p).package = p
    BY DEF Row
  <2> HIDE DEF r
  <2> QED
    BY <2>3, <2>4
<1> QED
  BY <1>2, <1>3
-----------------------------------------------------------------------------
\* The row of PKG that application a is flattened to.
Linked(rows, a) == {r \in rows : r.application = a.application}
NameOf(rows, a) == IF Linked(rows, a) = {} THEN Null ELSE (CHOOSE r \in Linked(rows, a) : TRUE).name
Flat(d, a) ==
  [ package |-> a.package, name |-> a.name, version |-> a.versions[1],
    type |-> NameOf(d.types, a), maker |-> NameOf(d.makers, a),
    osName |-> NameOf(d.systems, a), language |-> NameOf(d.languages, a),
    osVersion |-> IF Linked(d.systems, a) = {} THEN Null
                  ELSE (CHOOSE r \in Linked(d.systems, a) : TRUE).version ]

\* The applications of the packages that have a file.
Used(d) == {a \in d.applications : \E o \in d.objects : o.package = a.package}

(* Of a group of one row or none, the least text is that of the row.       *)
LEMMA OnlyText ==
  ASSUME NEW rows, NEW a, \A r \in rows : r.name \in Texts /\ r.version \in Texts,
         \A r, s \in rows : r.application = s.application => r = s
  PROVE  /\ OrEmpty(MinText({r.name : r \in OfApplication(rows, a)})) = OrEmpty(NameOf(rows, a))
         /\ OrEmpty(MinText({r.version : r \in OfApplication(rows, a)}))
              = OrEmpty(IF Linked(rows, a) = {} THEN Null
                        ELSE (CHOOSE r \in Linked(rows, a) : TRUE).version)
<1>1. OfApplication(rows, a) = Linked(rows, a)
  BY DEF OfApplication, Linked
<1>2. ASSUME NEW t \in Texts PROVE OrEmpty(MinText({t})) = OrEmpty(t)
  <2>1. {t} \subseteq Texts
    OBVIOUS
  <2>2. CASE t = Null
    <3>1. {t} \ {Null} = {}
      BY <2>2
    <3>2. OrEmpty(MinText({t})) = EmptyText
      BY <2>1, <3>1, LeastText
    <3> QED
      BY <2>2, <3>2 DEF OrEmpty, Coalesce
  <2>3. CASE t # Null
    <3>1. {t} \ {Null} = {t}
      BY <2>3
    <3>2. OrEmpty(MinText({t})) = t
      BY <2>1, <3>1, LeastText
    <3> QED
      BY <2>3, <3>2 DEF OrEmpty, Coalesce
  <2> QED
    BY <2>2, <2>3
<1>3. CASE Linked(rows, a) = {}
  <2>1. /\ {r.name : r \in OfApplication(rows, a)} = {}
        /\ {r.version : r \in OfApplication(rows, a)} = {}
    BY <1>1, <1>3
  <2>2. MinText({}) = Null
    BY DEF MinText
  <2>3. NameOf(rows, a) = Null
    BY <1>3 DEF NameOf
  <2> QED
    BY <1>3, <2>1, <2>2, <2>3
<1>4. CASE Linked(rows, a) # {}
  <2>1. PICK r : r = CHOOSE s \in Linked(rows, a) : TRUE
    OBVIOUS
  <2>2. r \in Linked(rows, a)
    BY <1>4, <2>1
  <2>3. Linked(rows, a) = {r} /\ r \in rows
    BY <2>2 DEF Linked
  <2>4. r.name \in Texts /\ r.version \in Texts
    BY <2>3
  <2>5. /\ {s.name : s \in OfApplication(rows, a)} = {r.name}
        /\ {s.version : s \in OfApplication(rows, a)} = {r.version}
    BY <1>1, <2>3
  <2>6. NameOf(rows, a) = r.name
    BY <1>4, <2>1 DEF NameOf
  <2> QED
    BY <1>2, <1>4, <2>1, <2>4, <2>5, <2>6
<1> QED
  BY <1>3, <1>4

(* Flattened, an application is described in the same words.               *)
LEMMA SameInfo ==
  ASSUME NEW d, Typed(d), IsFlat(d), NEW a \in d.applications
  PROVE  MinimalInfo(Flat(d, a)) = ModernInfo(d, a)
<1> DEFINE Least(rows) == OrEmpty(MinText({r.name : r \in OfApplication(rows, a)}))
           osVersion == OrEmpty(MinText({r.version : r \in OfApplication(d.systems, a)}))
           p == Flat(d, a)
<1>1. ASSUME NEW rows \in {d.types, d.makers, d.languages, d.systems}
      PROVE  /\ Least(rows) = OrEmpty(NameOf(rows, a))
             /\ OrEmpty(MinText({r.version : r \in OfApplication(rows, a)}))
                  = OrEmpty(IF Linked(rows, a) = {} THEN Null
                            ELSE (CHOOSE r \in Linked(rows, a) : TRUE).version)
  <2>1. \A r \in rows : r.name \in Texts /\ r.version \in Texts
    BY DEF Typed
  <2>2. \A r, s \in rows : r.application = s.application => r = s
    BY DEF IsFlat
  <2> QED
    BY <2>1, <2>2, OnlyText
<1>2. FirstFilled(a.versions) = OrEmpty(a.versions[1])
  <2> DEFINE filled == {i \in DOMAIN a.versions : a.versions[i] \notin {Null, EmptyText}}
  <2>1. 1 \in filled /\ \A i \in filled : i \in Nat /\ 1 <= i
    BY DEF Typed, IsFlat
  <2>2. FirstFilled(a.versions) = a.versions[Min(filled)]
    BY <2>1 DEF FirstFilled
  <2>3. a.versions[1] # Null
    BY DEF IsFlat
  <2> HIDE DEF filled
  <2>4. Min(filled) \in filled /\ \A i \in filled : Min(filled) <= i
    <3>1. \E x \in filled : \A y \in filled : x <= y
      BY <2>1
    <3> QED
      BY <3>1, Zenon DEF Min
  <2> DEFINE least == Min(filled)
  <2>5. least \in filled /\ least <= 1
    BY <2>1, <2>4
  <2> HIDE DEF least
  <2>6. least = 1
    BY <2>1, <2>5
  <2> QED
    BY <2>2, <2>3, <2>6 DEF least, OrEmpty, Coalesce
<1>3. /\ Least(d.types) = OrEmpty(NameOf(d.types, a))
      /\ Least(d.makers) = OrEmpty(NameOf(d.makers, a))
      /\ Least(d.languages) = OrEmpty(NameOf(d.languages, a))
      /\ Least(d.systems) = OrEmpty(NameOf(d.systems, a))
      /\ osVersion = OrEmpty(p.osVersion)
  <2> HIDE DEF Least
  <2>1. osVersion = OrEmpty(p.osVersion)
    BY <1>1 DEF Flat
  <2> HIDE DEF osVersion
  <2> QED
    BY <1>1, <2>1
<1>4. ModernInfo(d, a) =
        [ appName |-> OrEmpty(a.name), appVersion |-> FirstFilled(a.versions),
          appType |-> Least(d.types), manufacturer |-> Least(d.makers),
          osName |-> Least(d.systems), osVersion |-> osVersion, language |-> Least(d.languages) ]
  BY DEF ModernInfo
<1>5. MinimalInfo(p) =
        [ appName |-> OrEmpty(a.name), appVersion |-> OrEmpty(a.versions[1]),
          appType |-> OrEmpty(NameOf(d.types, a)), manufacturer |-> OrEmpty(NameOf(d.makers, a)),
          osName |-> OrEmpty(NameOf(d.systems, a)), osVersion |-> OrEmpty(p.osVersion),
          language |-> OrEmpty(NameOf(d.languages, a)) ]
  BY DEF MinimalInfo, Flat
<1> HIDE DEF Least, osVersion, p
<1> QED
  BY <1>2, <1>3, <1>4, <1>5 DEF p

(* In a flat database there is one map of the packages, by either schema,  *)
(* and it has the details of the one application of each package.          *)
LEMMA OneMap ==
  ASSUME NEW rows, \A a, b \in rows : a.package = b.package => a = b
  PROVE  LET ids   == {r.package : r \in rows} \ {Null}
             picks == {f \in [ids -> rows] : \A id \in ids : f[id].package = id}
         IN  /\ \E f : f \in picks
             /\ \A f \in picks : \A a \in rows : a.package # Null => f[a.package] = a
<1> DEFINE ids   == {r.package : r \in rows} \ {Null}
           picks == {f \in [ids -> rows] : \A id \in ids : f[id].package = id}
           one   == [id \in ids |-> CHOOSE a \in rows : a.package = id]
<1>1. \A id \in ids : one[id] \in rows /\ one[id].package = id
  <2>1. ASSUME NEW id \in ids PROVE \E a \in rows : a.package = id
    OBVIOUS
  <2> QED
    BY <2>1
<1>2. one \in picks
  <2>1. one \in [ids -> rows]
    BY <1>1
  <2> QED
    BY <1>1, <2>1
<1>3. ASSUME NEW f \in picks, NEW a \in rows, a.package # Null PROVE f[a.package] = a
  <2>1. a.package \in ids
    BY <1>3
  <2>2. f[a.package] \in rows /\ f[a.package].package = a.package
    BY <2>1
  <2> QED
    BY <2>2
<1> QED
  BY <1>2, <1>3

LEMMA MinimalMap ==
  ASSUME NEW d, Typed(d), IsFlat(d)
  PROVE  /\ PackageMaps("minimal", Flatten(d)) # {}
         /\ \A m \in PackageMaps("minimal", Flatten(d)) :
              /\ DOMAIN m = {a.package : a \in d.applications} \ {Null}
              /\ \A a \in d.applications : a.package # Null => m[a.package] = ModernInfo(d, a)
<1> DEFINE rows  == {Flat(d, a) : a \in d.applications}
           ids   == {r.package : r \in rows} \ {Null}
           picks == {f \in [ids -> rows] : \A id \in ids : f[id].package = id}
           Of(f) == [id \in ids |-> MinimalInfo(f[id])]
<1>1. Flatten(d).packages = rows
  BY DEF Flatten, Flat, NameOf, Linked
<1>2. PackageMaps("minimal", Flatten(d)) = {Of(f) : f \in picks}
  BY <1>1 DEF PackageMaps
<1>3. \A a \in d.applications : Flat(d, a).package = a.package
  BY DEF Flat
<1>4. ids = {a.package : a \in d.applications} \ {Null}
  BY <1>3
<1>5. \A r, s \in rows : r.package = s.package => r = s
  BY <1>3 DEF IsFlat
<1>6. /\ \E f : f \in picks
      /\ \A f \in picks : \A r \in rows : r.package # Null => f[r.package] = r
  <2> HIDE DEF rows
  <2> QED
    BY <1>5, OneMap
<1>7. ASSUME NEW f \in picks, NEW a \in d.applications, a.package # Null
      PROVE  Of(f)[a.package] = ModernInfo(d, a)
  <2>1. f[Flat(d, a).package] = Flat(d, a)
    BY <1>3, <1>6, <1>7
  <2>2. a.package \in ids
    BY <1>4, <1>7
  <2> HIDE DEF ids
  <2>3. Of(f)[a.package] = MinimalInfo(f[a.package])
    BY <2>2
  <2> QED
    BY <1>3, <2>1, <2>3, SameInfo
<1>8. \A f : DOMAIN Of(f) = ids
  OBVIOUS
<1> HIDE DEF Of, picks, ids
<1> QED
  BY <1>2, <1>4, <1>6, <1>7, <1>8

LEMMA ModernMap ==
  ASSUME NEW d, Typed(d), IsFlat(d)
  PROVE  /\ PackageMaps("modern", d) # {}
         /\ \A m \in PackageMaps("modern", d) :
              /\ DOMAIN m = {a.package : a \in Used(d)} \ {Null}
              /\ \A a \in Used(d) : a.package # Null => m[a.package] = ModernInfo(d, a)
<1> DEFINE rows  == Used(d)
           ids   == {r.package : r \in rows} \ {Null}
           picks == {f \in [ids -> rows] : \A id \in ids : f[id].package = id}
           Of(f) == [id \in ids |-> ModernInfo(d, f[id])]
<1>1. PackageMaps("modern", d) = {Of(f) : f \in picks}
  BY DEF PackageMaps, Used
<1>2. \A r, s \in rows : r.package = s.package => r = s
  BY DEF IsFlat, Used
<1> HIDE DEF rows
<1>3. /\ \E f : f \in picks
      /\ \A f \in picks : \A r \in rows : r.package # Null => f[r.package] = r
  BY <1>2, OneMap
<1>4. ASSUME NEW f \in picks, NEW a \in rows, a.package # Null
      PROVE  Of(f)[a.package] = ModernInfo(d, a)
  <2>1. f[a.package] = a
    BY <1>3, <1>4
  <2>2. a.package \in ids
    BY <1>4
  <2> HIDE DEF ids
  <2>3. Of(f)[a.package] = ModernInfo(d, f[a.package])
    BY <2>2
  <2> QED
    BY <2>1, <2>3
<1>5. \A f : DOMAIN Of(f) = ids
  OBVIOUS
<1>6. ids = {a.package : a \in Used(d)} \ {Null}
  BY DEF rows
<1> HIDE DEF Of, picks, ids
<1>7. /\ PackageMaps("modern", d) # {}
      /\ \A m \in PackageMaps("modern", d) :
           DOMAIN m = ids /\ \A a \in rows : a.package # Null => m[a.package] = ModernInfo(d, a)
  BY <1>1, <1>3, <1>4, <1>5
<1> QED
  BY <1>6, <1>7 DEF rows

(* The rows of the flattened database that scan: of every whole file, one  *)
(* for each package it is linked to, and none for no package.              *)
LEMMA MinimalRows ==
  ASSUME NEW d, Typed(d), IsFlat(d), NEW x
  PROVE  x \in Streamed("minimal", Flatten(d)) <=>
           \E f \in d.files : Whole(f) /\ \E p \in LinksOf(d, f) : x = Row0(f, p)
<1> DEFINE Given(f) == IF LinksOf(d, f) = {} THEN {Null} ELSE LinksOf(d, f)
           Line(f, p) == [hashes |-> f.hashes, name |-> FileName(f), size |-> f.size, package |-> p]
<1>1. \A y : y \in Flatten(d).files <=> \E f \in d.files : \E p \in Given(f) : y = Line(f, p)
  BY DEF Flatten
<1>2. x \in FileRows("minimal", Flatten(d)) <=>
        \E y \in Flatten(d).files :
          x = [hashes |-> y.hashes, name |-> y.name, size |-> y.size, path |-> EmptyText,
               package |-> y.package]
  BY DEF FileRows
<1>3. \A f, p : Row0(f, p) = [hashes |-> Line(f, p).hashes, name |-> Line(f, p).name,
                              size |-> Line(f, p).size, path |-> EmptyText,
                              package |-> Line(f, p).package]
  BY DEF Row0
<1> HIDE DEF Line
<1>4. x \in FileRows("minimal", Flatten(d)) <=>
        \E f \in d.files : \E p \in Given(f) : x = Row0(f, p)
  BY <1>1, <1>2, <1>3
<1>5. \A f, p : Scans(Row0(f, p)) <=> Whole(f) /\ p # Null
  BY DEF Scans, Row0, Whole
<1>6. ASSUME NEW f, NEW p \in LinksOf(d, f) PROVE p # Null
  BY DEF LinksOf, IsFlat
<1> QED
  BY <1>4, <1>5, <1>6 DEF Streamed

(* Either schema gives the same records, but for the path, which FILE does *)
(* not have, and for the files without a package.                          *)
THEOREM SchemasGiveTheSame ==
  ASSUME NEW d, Typed(d), NEW have
  PROVE  SchemasAgree(have, d)
<1> SUFFICES ASSUME IsFlat(d), ModernTables \subseteq have
             PROVE  SchemasAgree(have, d)
  BY DEF SchemasAgree
<1> DEFINE flat   == Flatten(d)
           Min0   == PackageMaps("minimal", flat)
           Mod0   == PackageMaps("modern", d)
           A(m)   == {[row |-> row, info |-> InfoOf(row, m)] : row \in Streamed("minimal", flat)}
           B(m)   == {[row |-> row, info |-> InfoOf(row, m)] : row \in Streamed("modern", d)}
           Bare(records) == { [row |-> [r.row EXCEPT !.path = EmptyText], info |-> r.info]
                              : r \in {r \in records : r.row.package # NoPackage} }
<1>1. Imports(MinimalTables, flat) = {A(m) : m \in Min0}
  <2>1. DetectSchema(MinimalTables) = "minimal" /\ Loads(MinimalTables)
    BY DEF MinimalTables, DetectSchema, Loads
  <2> QED
    BY <2>1, Zenon DEF Imports
<1>2. Imports(have, d) = {B(m) : m \in Mod0}
  <2>1. DetectSchema(have) = "modern" /\ Loads(have)
    BY Modern DEF Loads
  <2> QED
    BY <2>1, Zenon DEF Imports
<1>3. ASSUME NEW m \in Min0, NEW n \in Mod0 PROVE A(m) = Bare(B(n))
  <2>5. /\ DOMAIN m = {a.package : a \in d.applications} \ {Null}
        /\ \A a \in d.applications : a.package # Null => m[a.package] = ModernInfo(d, a)
    BY MinimalMap
  <2>6. /\ DOMAIN n = {a.package : a \in Used(d)} \ {Null}
        /\ \A a \in Used(d) : a.package # Null => n[a.package] = ModernInfo(d, a)
    BY ModernMap
  <2>1. ASSUME NEW f, NEW p \in LinksOf(d, f)
        PROVE  InfoOf(Row0(f, p), m) = InfoOf(Row(f, p), n)
    <3>1. Row0(f, p).package = p /\ Row(f, p).package = p
      BY DEF Row0, Row
    <3>2. p # Null /\ \E o \in d.objects : o.package = p
      BY DEF LinksOf, IsFlat
    <3>3. CASE \E a \in d.applications : a.package = p
      <4>1. PICK a \in d.applications : a.package = p
        BY <3>3
      <4>2. a \in Used(d)
        BY <3>2, <4>1 DEF Used
      <4>3. p \in DOMAIN m /\ m[p] = ModernInfo(d, a)
        BY <2>5, <3>2, <4>1
      <4>4. p \in DOMAIN n /\ n[p] = ModernInfo(d, a)
        BY <2>6, <3>2, <4>1, <4>2
      <4> QED
        BY <3>1, <4>3, <4>4 DEF InfoOf
    <3>4. CASE ~ \E a \in d.applications : a.package = p
      <4>1. p \notin DOMAIN m
        BY <2>5, <3>4
      <4>2. p \notin DOMAIN n
        BY <2>6, <3>4 DEF Used
      <4> QED
        BY <3>1, <4>1, <4>2 DEF InfoOf
    <3> QED
      BY <3>3, <3>4
  <2> DEFINE Rec(f, p) == [row |-> Row0(f, p), info |-> InfoOf(Row(f, p), n)]
  <2>2. ASSUME NEW x
        PROVE  x \in A(m) <=> \E f \in d.files : Whole(f) /\ \E p \in LinksOf(d, f) : x = Rec(f, p)
    <3>1. x \in A(m) <=> \E row \in Streamed("minimal", flat) : x = [row |-> row, info |-> InfoOf(row, m)]
      OBVIOUS
    <3>2. \A row : row \in Streamed("minimal", flat) <=>
            \E f \in d.files : Whole(f) /\ \E p \in LinksOf(d, f) : row = Row0(f, p)
      BY MinimalRows
    <3> HIDE DEF A, flat
    <3> QED
      BY <2>1, <3>1, <3>2
  <2>3. ASSUME NEW x
        PROVE  x \in Bare(B(n)) <=> \E f \in d.files : Whole(f) /\ \E p \in LinksOf(d, f) : x = Rec(f, p)
    <3> DEFINE Strip(row) == [row EXCEPT !.path = EmptyText]
               Of(row) == [row |-> Strip(row), info |-> InfoOf(row, n)]
    <3>1. x \in Bare(B(n)) <=>
            \E row \in Streamed("modern", d) : row.package # NoPackage /\ x = Of(row)
      <4>1. x \in Bare(B(n)) <=>
              \E r \in B(n) : /\ r.row.package # NoPackage
                              /\ x = [row |-> Strip(r.row), info |-> r.info]
        OBVIOUS
      <4>2. \A r : r \in B(n) <=>
              \E row \in Streamed("modern", d) : r = [row |-> row, info |-> InfoOf(row, n)]
        OBVIOUS
      <4> HIDE DEF B, Bare, Strip
      <4>3. ASSUME x \in Bare(B(n))
            PROVE  \E row \in Streamed("modern", d) : row.package # NoPackage /\ x = Of(row)
        <5>1. PICK r \in B(n) : r.row.package # NoPackage /\ x = [row |-> Strip(r.row), info |-> r.info]
          BY <4>1, <4>3
        <5>2. PICK row \in Streamed("modern", d) : r = [row |-> row, info |-> InfoOf(row, n)]
          BY <4>2
        <5>3. r.row = row /\ r.info = InfoOf(row, n)
          BY <5>2
        <5> QED
          BY <5>1, <5>3
      <4>4. ASSUME NEW row \in Streamed("modern", d), row.package # NoPackage, x = Of(row)
            PROVE  x \in Bare(B(n))
        <5> DEFINE r == [row |-> row, info |-> InfoOf(row, n)]
        <5>1. r \in B(n) /\ r.row = row /\ r.info = InfoOf(row, n)
          BY <4>2
        <5> HIDE DEF r
        <5>2. x = [row |-> Strip(r.row), info |-> r.info]
          BY <4>4, <5>1
        <5> QED
          BY <4>1, <4>4, <5>1, <5>2
      <4> QED
        BY <4>3, <4>4
    <3>2. \A row : row \in Streamed("modern", d) <=>
            \E f \in d.files : Whole(f) /\ \E p \in PackagesOf(d, f) : row = Row(f, p)
      BY ModernRows
    <3>3. \A f, p : Row(f, p).package = p /\ Of(Row(f, p)) = Rec(f, p)
      BY DEF Row, Row0
    <3>4. \A f, p : p \in PackagesOf(d, f) /\ p # NoPackage <=> p \in LinksOf(d, f)
      <4>1. \A f : \A p \in LinksOf(d, f) : p # Null /\ p # NoPackage
        BY DEF LinksOf, IsFlat, Typed
      <4> QED
        BY <4>1 DEF PackagesOf, Coalesce
    <3> HIDE DEF Of, B, Bare, Rec
    <3> QED
      BY <3>1, <3>2, <3>3, <3>4
  <2> HIDE DEF A, B, Bare, Rec
  <2>4. \A x : x \in A(m) <=> x \in Bare(B(n))
    BY <2>2, <2>3
  <2> QED
    BY <2>4
<1>4. Min0 # {} /\ Mod0 # {}
  BY MinimalMap, ModernMap
<1> HIDE DEF A, B, Bare, Min0, Mod0, flat
<1>5. {A(m) : m \in Min0} = {Bare(records) : records \in {B(m) : m \in Mod0}}
  <2>1. ASSUME NEW x PROVE x \in {A(m) : m \in Min0} <=> \E n \in Mod0 : x = Bare(B(n))
    BY <1>3, <1>4
  <2> QED
    BY <2>1
<1>6. Imports(MinimalTables, flat) = {Bare(records) : records \in Imports(have, d)}
  BY <1>1, <1>2, <1>5
<1> QED
  BY <1>6 DEF SchemasAgree, Bare, flat
-----------------------------------------------------------------------------
\* The samples that come before sample i in the sorted slice, and i itself;
\* the sample at place n; the number of samples that x is not less than.
Before(s, j, i) == s[j] < s[i] \/ (s[j] = s[i] /\ j <= i)
UpTo(s, i)      == {j \in DOMAIN s : Before(s, j, i)}
At(s, n)        == CHOOSE i \in DOMAIN s : Place(s, i) = n
NotAbove(s, x)  == {i \in DOMAIN s : s[i] <= x}

(* The places of the samples are those from 1 to their number, in order.   *)
LEMMA PlacesOrdered ==
  ASSUME NEW s \in Seq(Nat)
  PROVE  /\ \A i \in DOMAIN s : Place(s, i) \in 1..Len(s)
         /\ \A i, j \in DOMAIN s : Before(s, j, i) /\ j # i => Place(s, j) < Place(s, i)
         /\ \A i, j \in DOMAIN s : Place(s, j) < Place(s, i) => s[j] <= s[i]
<1>1. /\ DOMAIN s = 1..Len(s) /\ Len(s) \in Nat /\ \A i \in DOMAIN s : s[i] \in Nat /\ i \in Nat
  OBVIOUS
<1>2. IsFiniteSet(DOMAIN s) /\ Cardinality(DOMAIN s) = Len(s)
  <2> DEFINE N == Len(s)
  <2>1. N \in Nat
    BY <1>1
  <2> HIDE DEF N
  <2>2. IsFiniteSet(1..N) /\ Cardinality(1..N) = IF 1 > N THEN 0 ELSE N - 1 + 1
    BY <2>1, FS_Interval
  <2>3. Cardinality(1..N) = N
    BY <2>1, <2>2
  <2> QED
    BY <1>1, <2>2, <2>3 DEF N
<1>3. \A i : Place(s, i) = Cardinality(UpTo(s, i))
  BY DEF Place, UpTo, Before
<1>4. \A i : /\ UpTo(s, i) \in SUBSET DOMAIN s /\ IsFiniteSet(UpTo(s, i))
             /\ Cardinality(UpTo(s, i)) \in Nat /\ Cardinality(UpTo(s, i)) <= Len(s)
  <2>1. \A i : UpTo(s, i) \in SUBSET DOMAIN s
    BY DEF UpTo
  <2> QED
    BY <1>2, <2>1, FS_Subset, FS_CardinalityType
<1>5. ASSUME NEW i \in DOMAIN s PROVE Place(s, i) \in 1..Len(s)
  <2>1. i \in UpTo(s, i)
    BY <1>1 DEF UpTo, Before
  <2>2. Cardinality(UpTo(s, i)) # 0
    BY <1>4, <2>1, FS_EmptySet
  <2> QED
    BY <1>1, <1>3, <1>4, <2>2
<1>6. ASSUME NEW i \in DOMAIN s, NEW j \in DOMAIN s, Before(s, j, i), j # i
      PROVE  Place(s, j) < Place(s, i)
  <2>1. UpTo(s, j) \subseteq UpTo(s, i) /\ i \in UpTo(s, i) /\ i \notin UpTo(s, j)
    BY <1>1, <1>6 DEF UpTo, Before
  <2>2. /\ Cardinality(UpTo(s, j)) <= Cardinality(UpTo(s, i))
        /\ Cardinality(UpTo(s, j)) # Cardinality(UpTo(s, i))
    BY <1>4, <2>1, FS_Subset
  <2> QED
    BY <1>3, <1>4, <2>2
<1>7. ASSUME NEW i \in DOMAIN s, NEW j \in DOMAIN s, Place(s, j) < Place(s, i)
      PROVE  s[j] <= s[i]
  <2>1. SUFFICES ASSUME s[i] < s[j] PROVE FALSE
    BY <1>1
  <2>2. Before(s, i, j) /\ i # j
    BY <1>1, <2>1 DEF Before
  <2>3. Place(s, i) < Place(s, j) /\ Place(s, i) \in Nat /\ Place(s, j) \in Nat
    BY <1>1, <1>5, <1>6, <2>2
  <2> QED
    BY <1>7, <2>3
<1> QED
  BY <1>5, <1>6, <1>7

(* Every place is taken, so the sorted slice is a rearrangement.           *)
LEMMA EveryPlaceTaken ==
  ASSUME NEW s \in Seq(Nat), NEW n \in 1..Len(s)
  PROVE  At(s, n) \in DOMAIN s /\ Place(s, At(s, n)) = n /\ Sorted(s)[n] = s[At(s, n)]
<1>1. /\ DOMAIN s = 1..Len(s) /\ Len(s) \in Nat /\ \A i \in DOMAIN s : s[i] \in Nat /\ i \in Nat
  OBVIOUS
<1> DEFINE D == DOMAIN s
           place == [i \in D |-> Place(s, i)]
<1>2. IsFiniteSet(D)
  BY <1>1, FS_Interval
<1>3. place \in [D -> D]
  BY <1>1, PlacesOrdered
<1>4. ASSUME NEW i \in D, NEW j \in D, place[i] = place[j] PROVE i = j
  <2>1. SUFFICES ASSUME i # j PROVE FALSE
    OBVIOUS
  <2>2. Before(s, i, j) \/ Before(s, j, i)
    BY <1>1 DEF Before
  <2>3. Place(s, i) < Place(s, j) \/ Place(s, j) < Place(s, i)
    BY <2>1, <2>2, PlacesOrdered
  <2>4. Place(s, i) = Place(s, j) /\ Place(s, i) \in Nat
    BY <1>1, <1>4, PlacesOrdered
  <2> QED
    BY <2>3, <2>4
<1>5. place \in Injection(D, D)
  <2>1. IsInjective(place)
    BY <1>3, <1>4 DEF IsInjective
  <2> HIDE DEF place, D
  <2> QED
    BY <1>3, <2>1 DEF Injection
<1>6. place \in Surjection(D, D)
  <2> HIDE DEF place, D
  <2> QED
    BY <1>2, <1>5, FS_Injection
<1>7. n \in D
  BY <1>1
<1>8. \E i \in D : place[i] = n
  <2> HIDE DEF place, D
  <2> QED
    BY <1>6, <1>7 DEF Surjection
<1>9. \E i \in D : Place(s, i) = n
  BY <1>8
<1>10. At(s, n) \in D /\ Place(s, At(s, n)) = n
  BY <1>9 DEF At
<1> QED
  BY <1>7, <1>10 DEF Sorted, At

(* How many samples are not above one, and how many not above less.        *)
LEMMA CountAndPlace ==
  ASSUME NEW s \in Seq(Nat), NEW i \in DOMAIN s
  PROVE  /\ Cardinality(NotAbove(s, s[i])) >= Place(s, i)
         /\ \A x \in Nat : x < s[i] => Cardinality(NotAbove(s, x)) < Place(s, i)
         /\ \A x \in Nat : Cardinality(NotAbove(s, x)) \in Nat
<1>1. /\ DOMAIN s = 1..Len(s) /\ Len(s) \in Nat /\ \A j \in DOMAIN s : s[j] \in Nat /\ j \in Nat
  OBVIOUS
<1>2. IsFiniteSet(DOMAIN s)
  BY <1>1, FS_Interval
<1>3. Place(s, i) = Cardinality(UpTo(s, i))
  BY DEF Place, UpTo, Before
<1>4. /\ IsFiniteSet(UpTo(s, i)) /\ Cardinality(UpTo(s, i)) \in Nat
      /\ \A x : IsFiniteSet(NotAbove(s, x)) /\ Cardinality(NotAbove(s, x)) \in Nat
  <2>1. UpTo(s, i) \in SUBSET DOMAIN s /\ \A x : NotAbove(s, x) \in SUBSET DOMAIN s
    BY DEF UpTo, NotAbove
  <2> QED
    BY <1>2, <2>1, FS_Subset, FS_CardinalityType
<1>5. Cardinality(UpTo(s, i)) <= Cardinality(NotAbove(s, s[i]))
  <2>1. UpTo(s, i) \subseteq NotAbove(s, s[i])
    BY <1>1 DEF UpTo, Before, NotAbove
  <2> QED
    BY <1>4, <2>1, FS_Subset
<1>6. ASSUME NEW x \in Nat, x < s[i]
      PROVE  Cardinality(NotAbove(s, x)) < Cardinality(UpTo(s, i))
  <2>1. NotAbove(s, x) \subseteq UpTo(s, i) /\ i \in UpTo(s, i) /\ i \notin NotAbove(s, x)
    BY <1>1, <1>6 DEF UpTo, Before, NotAbove
  <2>2. /\ Cardinality(NotAbove(s, x)) <= Cardinality(UpTo(s, i))
        /\ Cardinality(NotAbove(s, x)) # Cardinality(UpTo(s, i))
    BY <1>4, <2>1, FS_Subset
  <2> QED
    BY <1>4, <2>2
<1> QED
  BY <1>3, <1>4, <1>5, <1>6

(* The truncated index is the rank that was asked for or one less.         *)
Percents         == {50, 95, 99}
Index(N, pct)    == ((N - 1) * pct) \div 100 + 1
Ample(m, pct, N) == m * 100 >= pct * N

LEMMA Truncated ==
  ASSUME NEW N \in Nat \ {0}, NEW pct \in Percents
  PROVE  /\ Index(N, pct) \in 1..N
         /\ \A m \in Nat : Ample(m, pct, N) => m >= Index(N, pct)
         /\ \A m \in Nat : m > Index(N, pct) => Ample(m, pct, N)
         /\ \A m \in Nat : m >= N => Ample(m, pct, N)
<1>1. PICK k : k = Index(N, pct)
  OBVIOUS
<1>2. CASE pct = 50
  <2>1. /\ k \in Nat /\ k - 1 \in Nat
        /\ 100 * (k - 1) <= (N - 1) * 50 /\ (N - 1) * 50 < 100 * (k - 1) + 100
    BY <1>1, <1>2 DEF Index
  <2>2. /\ k \in 1..N
        /\ \A m \in Nat : Ample(m, 50, N) => m >= k
        /\ \A m \in Nat : m > k => Ample(m, 50, N)
        /\ \A m \in Nat : m >= N => Ample(m, 50, N)
    BY <2>1 DEF Ample
  <2> QED
    BY <1>1, <1>2, <2>2, Zenon
<1>3. CASE pct = 95
  <2>1. /\ k \in Nat /\ k - 1 \in Nat
        /\ 100 * (k - 1) <= (N - 1) * 95 /\ (N - 1) * 95 < 100 * (k - 1) + 100
    BY <1>1, <1>3 DEF Index
  <2>2. /\ k \in 1..N
        /\ \A m \in Nat : Ample(m, 95, N) => m >= k
        /\ \A m \in Nat : m > k => Ample(m, 95, N)
        /\ \A m \in Nat : m >= N => Ample(m, 95, N)
    BY <2>1 DEF Ample
  <2> QED
    BY <1>1, <1>3, <2>2, Zenon
<1>4. CASE pct = 99
  <2>1. /\ k \in Nat /\ k - 1 \in Nat
        /\ 100 * (k - 1) <= (N - 1) * 99 /\ (N - 1) * 99 < 100 * (k - 1) + 100
    BY <1>1, <1>4 DEF Index
  <2>2. /\ k \in 1..N
        /\ \A m \in Nat : Ample(m, 99, N) => m >= k
        /\ \A m \in Nat : m > k => Ample(m, 99, N)
        /\ \A m \in Nat : m >= N => Ample(m, 99, N)
    BY <2>1 DEF Ample
  <2> QED
    BY <1>1, <1>4, <2>2, Zenon
<1> QED
  BY <1>2, <1>3, <1>4 DEF Percents

(* The percentiles of any samples are the nearest-rank ones or the sample  *)
(* below, and in order.                                                    *)
THEOREM NearEnough ==
  ASSUME NEW s \in Seq(Nat)
  PROVE  PercentilesNearest(s)
<1> SUFFICES ASSUME s # <<>> PROVE PercentilesNearest(s)
  BY DEF PercentilesNearest
<1> DEFINE N == Len(s)
           k(pct) == Index(N, pct)
<1>1. /\ DOMAIN s = 1..N /\ N \in Nat \ {0} /\ \A i \in DOMAIN s : s[i] \in Nat /\ i \in Nat
  OBVIOUS
<1>9. N \in Nat \ {0}
  BY <1>1
<1>2. ASSUME NEW pct \in Percents
      PROVE  /\ k(pct) \in 1..N
             /\ \A m \in Nat : Ample(m, pct, N) => m >= k(pct)
             /\ \A m \in Nat : m > k(pct) => Ample(m, pct, N)
             /\ \A m \in Nat : m >= N => Ample(m, pct, N)
  <2> HIDE DEF N
  <2> QED
    BY <1>9, Truncated, Zenon
<1>3. k(50) <= k(95) /\ k(95) <= k(99)
  <2> HIDE DEF N
  <2> QED
    BY <1>9 DEF Index, Percents
<1>8. \A pct \in Percents : Percentile(s, pct) = Sorted(s)[k(pct)]
  BY Zenon DEF Percentile, Index
<1> HIDE DEF k
<1>4. ASSUME NEW pct \in Percents
      PROVE  /\ Percentile(s, pct) = s[At(s, k(pct))] /\ At(s, k(pct)) \in DOMAIN s
             /\ Place(s, At(s, k(pct))) = k(pct)
  <2>1. k(pct) \in 1..Len(s)
    BY <1>2
  <2> QED
    BY <1>8, <2>1, EveryPlaceTaken
<1>5. ASSUME NEW pct \in Percents, NEW qct \in Percents, k(pct) <= k(qct)
      PROVE  Percentile(s, pct) <= Percentile(s, qct)
  <2>1. k(pct) \in Nat /\ k(qct) \in Nat
    BY <1>2
  <2>2. CASE k(pct) = k(qct)
    <3>1. Percentile(s, pct) = Percentile(s, qct) /\ Percentile(s, pct) \in Nat
      BY <1>1, <1>4, <2>2
    <3> QED
      BY <3>1
  <2>3. CASE k(pct) < k(qct)
    BY <1>4, <2>3, PlacesOrdered
  <2> QED
    BY <1>5, <2>1, <2>2, <2>3
<1>6. ASSUME NEW pct \in Percents
      PROVE  LET p == Percentile(s, pct)
                 nearest == NearestRank(s, pct)
             IN  /\ p \in Range(s) /\ p <= nearest
                 /\ \A x \in Range(s) : ~ (p < x /\ x < nearest)
  <2> DEFINE p == Percentile(s, pct)
             count(x) == Cardinality(NotAbove(s, x))
             enough == {x \in Range(s) : Ample(count(x), pct, N)}
             nearest == Min(enough)
  <2>1. NearestRank(s, pct) = nearest
    BY DEF NearestRank, NotAbove, Ample
  <2>2. Range(s) \subseteq Nat /\ p \in Range(s) /\ p \in Nat
    BY <1>1, <1>4 DEF Range
  <2>3. \A x \in Nat : count(x) \in Nat
    BY <1>1, CountAndPlace
  <2>4. enough # {} /\ enough \subseteq Nat
    <3>1. N \in 1..Len(s)
      BY <1>1
    <3> DEFINE i == At(s, N)
               x == s[i]
    <3>2. i \in DOMAIN s /\ Place(s, i) = N
      BY <3>1, EveryPlaceTaken
    <3> HIDE DEF i
    <3>3. x \in Range(s) /\ x \in Nat
      BY <1>1, <3>2 DEF Range
    <3>4. Ample(count(x), pct, N)
      <4>1. Cardinality(NotAbove(s, s[i])) >= Place(s, i)
        BY <3>2, CountAndPlace
      <4>2. count(x) >= N /\ count(x) \in Nat
        BY <2>3, <3>2, <3>3, <4>1
      <4> HIDE DEF x, count, N
      <4> QED
        BY <1>2, <4>2
    <3> HIDE DEF x, count
    <3>5. x \in enough
      BY <3>3, <3>4
    <3> QED
      BY <2>2, <3>5
  <2> HIDE DEF enough
  <2>5. nearest \in enough /\ \A x \in enough : nearest <= x
    <3>1. \E x \in enough : \A y \in enough : x <= y
      BY <2>4, LeastNatural
    <3> QED
      BY <3>1, Zenon DEF Min
  <2> HIDE DEF nearest
  <2>6. nearest \in Nat /\ nearest \in Range(s) /\ Ample(count(nearest), pct, N)
    BY <2>4, <2>5 DEF enough
  <2>7. count(nearest) >= k(pct) /\ k(pct) \in Nat /\ count(nearest) \in Nat
    <3> HIDE DEF count, N
    <3>1. PICK c : c = count(nearest)
      OBVIOUS
    <3>2. c \in Nat /\ Ample(c, pct, N)
      BY <2>3, <2>6, <3>1
    <3>3. k(pct) \in 1..N /\ c >= k(pct)
      BY <1>2, <3>2
    <3> QED
      BY <1>9, <3>1, <3>2, <3>3
  <2>8. p <= nearest
    <3>1. SUFFICES ASSUME nearest < p PROVE FALSE
      BY <2>2, <2>6
    <3> DEFINE i == At(s, k(pct))
    <3>3. i \in DOMAIN s /\ p = s[i] /\ Place(s, i) = k(pct)
      BY <1>4
    <3> HIDE DEF i, p
    <3>2. count(nearest) < k(pct)
      BY <2>6, <3>1, <3>3, CountAndPlace
    <3> QED
      BY <2>7, <3>2
  <2>9. ASSUME NEW x \in Range(s), p < x PROVE nearest <= x
    <3>1. PICK i \in DOMAIN s : x = s[i]
      BY DEF Range
    <3> DEFINE j == At(s, k(pct))
    <3>2. j \in DOMAIN s /\ p = s[j] /\ Place(s, j) = k(pct)
      BY <1>4
    <3> HIDE DEF j, p
    <3>3. Before(s, j, i) /\ j # i
      BY <1>1, <2>9, <3>1, <3>2 DEF Before
    <3>4. k(pct) < Place(s, i) /\ Place(s, i) \in Nat
      BY <1>1, <3>2, <3>3, PlacesOrdered
    <3>5. count(x) >= Place(s, i) /\ count(x) \in Nat
      BY <1>1, <3>1, CountAndPlace
    <3> HIDE DEF count
    <3>6. count(x) > k(pct)
      BY <2>7, <3>4, <3>5
    <3> HIDE DEF N
    <3>7. x \in enough
      BY <1>2, <3>5, <3>6 DEF enough
    <3> QED
      BY <2>5, <3>7
  <2> HIDE DEF p
  <2>10. \A x \in Range(s) : ~ (p < x /\ x < nearest)
    BY <2>2, <2>6, <2>9
  <2> QED
    BY <2>1, <2>2, <2>8, <2>10 DEF p
<1> QED
  BY <1>3, <1>5, <1>6 DEF PercentilesNearest, Percents
-----------------------------------------------------------------------------
\* The samples of the first i workers, for every i.
Joined(seqs, f) == f = [i \in 1..Len(seqs) |-> IF i = 1 THEN seqs[i] ELSE f[i - 1] \o seqs[i]]
Extended(seqs, f, n) == [i \in 1..(n + 1) |-> IF i <= n THEN f[i]
                                               ELSE IF i = 1 THEN seqs[i] ELSE f[i - 1] \o seqs[i]]
JoinedTo(seqs, f, n) ==
  /\ f \in [1..n -> Seq(Nat)]
  /\ \A i \in 1..n : f[i] = IF i = 1 THEN seqs[i] ELSE f[i - 1] \o seqs[i]

(* The slices of any number of workers merge into one slice.               *)
LEMMA MergeType ==
  ASSUME NEW seqs \in Seq(Seq(Nat))
  PROVE  Merge(seqs) \in Seq(Nat)
<1> DEFINE N == Len(seqs)
<1>1. N \in Nat /\ \A i \in 1..N : seqs[i] \in Seq(Nat)
  OBVIOUS
<1>2. CASE N = 0
  <2>1. Merge(seqs) = seqs /\ seqs = <<>>
    BY <1>2, Zenon, EmptySeq DEF Merge, FlattenSeq
  <2> QED
    BY <2>1
<1>3. CASE N # 0
  <2>1. 0..N \subseteq {n \in 0..N : \E f : JoinedTo(seqs, f, n)}
    <3> DEFINE Q == {n \in 0..N : \E f : JoinedTo(seqs, f, n)}
    <3>1. 0 \in Q
      <4>1. JoinedTo(seqs, [i \in 1..0 |-> <<>>], 0)
        BY DEF JoinedTo
      <4> QED
        BY <1>1, <4>1
    <3>2. ASSUME NEW n \in 0..(N - 1), n \in Q PROVE n + 1 \in Q
      <4>1. PICK f : JoinedTo(seqs, f, n)
        BY <3>2
      <4> DEFINE g == Extended(seqs, f, n)
      <4>2. n \in Nat /\ n + 1 \in 0..N /\ n + 1 \in 1..N
        BY <1>1
      <4>3. \A i \in 1..n : i \in 1..(n + 1) /\ i - 1 <= n /\ (i # 1 => i - 1 \in 1..n)
        BY <4>2
      <4>4. \A i \in 1..n : g[i] = f[i] /\ f[i] \in Seq(Nat)
        BY <4>1, <4>3 DEF Extended, JoinedTo
      <4>5. g[n + 1] = IF n + 1 = 1 THEN seqs[n + 1] ELSE g[n] \o seqs[n + 1]
        BY <4>2, <4>4 DEF Extended
      <4>6. g[n + 1] \in Seq(Nat)
        <5> HIDE DEF g
        <5>1. CASE n = 0
          BY <1>1, <4>2, <4>5, <5>1
        <5>2. CASE n # 0
          <6>1. n + 1 # 1 /\ n \in 1..n
            BY <4>2, <5>2
          <6>2. g[n] \in Seq(Nat) /\ seqs[n + 1] \in Seq(Nat)
            BY <1>1, <4>2, <4>4, <6>1
          <6> QED
            BY <4>5, <6>1, <6>2
        <5> QED
          BY <5>1, <5>2
      <4>7. \A i \in 1..(n + 1) : i \in 1..n \/ i = n + 1
        BY <4>2
      <4>8. g \in [1..(n + 1) -> Seq(Nat)]
        <5>1. g = [i \in 1..(n + 1) |-> g[i]]
          BY DEF Extended
        <5> HIDE DEF g
        <5> QED
          BY <4>4, <4>6, <4>7, <5>1
      <4>9. ASSUME NEW i \in 1..(n + 1)
            PROVE  g[i] = IF i = 1 THEN seqs[i] ELSE g[i - 1] \o seqs[i]
        <5> HIDE DEF g
        <5>1. CASE i \in 1..n
          BY <4>1, <4>3, <4>4, <5>1 DEF JoinedTo
        <5>2. CASE i = n + 1
          <6>1. i - 1 = n
            BY <4>2, <5>2
          <6> QED
            BY <4>5, <5>2, <6>1
        <5> QED
          BY <4>7, <5>1, <5>2
      <4> HIDE DEF g
      <4> QED
        BY <4>2, <4>8, <4>9 DEF JoinedTo
    <3> HIDE DEF Q, N
    <3>3. 0..N \subseteq Q
      BY <1>1, <3>1, <3>2, IntervalInduction
    <3> QED
      BY <3>3 DEF Q
  <2>2. \E f : JoinedTo(seqs, f, N)
    BY <1>1, <2>1
  <2>3. \E f : Joined(seqs, f)
    BY <2>2 DEF Joined, JoinedTo
  <2> DEFINE f == CHOOSE h : Joined(seqs, h)
  <2>4. Joined(seqs, f)
    BY <2>3
  <2>5. Merge(seqs) = f[N]
    BY <1>3, Zenon DEF Merge, FlattenSeq, Joined
  <2> HIDE DEF f
  <2>6. \A i \in 1..N : f[i] = IF i = 1 THEN seqs[i] ELSE f[i - 1] \o seqs[i]
    BY <2>4 DEF Joined
  <2>7. 0..N \subseteq {i \in 0..N : i # 0 => f[i] \in Seq(Nat)}
    <3> DEFINE Q == {i \in 0..N : i # 0 => f[i] \in Seq(Nat)}
    <3>1. 0 \in Q
      BY <1>1
    <3>2. ASSUME NEW n \in 0..(N - 1), n \in Q PROVE n + 1 \in Q
      <4>1. n \in Nat /\ n + 1 \in 1..N /\ (n + 1) - 1 = n /\ n + 1 \in 0..N
        BY <1>1
      <4>2. f[n + 1] = IF n + 1 = 1 THEN seqs[n + 1] ELSE f[n] \o seqs[n + 1]
        BY <2>6, <4>1
      <4>3. f[n + 1] \in Seq(Nat)
        <5>1. CASE n = 0
          BY <1>1, <4>1, <4>2, <5>1
        <5>2. CASE n # 0
          <6>1. n + 1 # 1 /\ f[n] \in Seq(Nat) /\ seqs[n + 1] \in Seq(Nat)
            BY <1>1, <3>2, <4>1, <5>2
          <6> QED
            BY <4>2, <6>1
        <5> QED
          BY <5>1, <5>2
      <4> QED
        BY <4>1, <4>3
    <3> HIDE DEF Q, N
    <3>3. 0..N \subseteq Q
      BY <1>1, <3>1, <3>2, IntervalInduction
    <3> QED
      BY <3>3 DEF Q
  <2>8. N \in 0..N
    BY <1>1
  <2> QED
    BY <1>3, <2>5, <2>7, <2>8
<1> QED
  BY <1>2, <1>3
-----------------------------------------------------------------------------
\* What is looked at is a cell, a query, a database such as sqlite3 gives, and
\* the latencies of some workers.
Given == /\ column \in HashKinds /\ cell \in Text /\ query \in Text
         /\ Typed(db) /\ perWorker \in Seq(Seq(Nat))

(* The databases tried are such.                                           *)
LEMMA DatabasesTyped == \A d \in Databases \cup {EmptyDb} : Typed(d)
<1>1. Typed(EmptyDb)
  BY FS_EmptySet DEF EmptyDb, Typed
<1>2. ASSUME NEW d \in Databases PROVE Typed(d)
  <2>1. PICK name \in {1, Null}, versions \in Versions, p \in {1, 2}, objects \in SUBSET Objects,
             systems \in SUBSET Links, types \in TypeRows, ext \in {Null, 3} :
          d = Database(name, versions, p, objects, systems, types, ext)
    BY DEF Databases
  <2>2. \A a \in d.applications : a.name \in Texts /\ DOMAIN a.versions = 1..4
    <3>1. \A v \in Versions \cup {<<1, 1, 1, 1>>} : DOMAIN v = 1..4
      BY DEF Versions
    <3>2. /\ d.applications = {Application(app1, 1, name, versions),
                               Application(app2, p, 2, <<1, 1, 1, 1>>)}
          /\ name \in Texts /\ 2 \in Texts
      BY <2>1 DEF Database, Texts
    <3>3. \A a, k, n, v : Application(a, k, n, v).name = n /\ Application(a, k, n, v).versions = v
      BY DEF Application
    <3> QED
      BY <3>1, <3>2, <3>3
  <2>3. \A o \in d.objects : o.package # NoPackage
    <3>1. \A o \in Objects : o.package # NoPackage
      BY NullAssumption DEF Objects, NoPackage
    <3>2. d.objects \subseteq Objects
      BY <2>1 DEF Database
    <3> QED
      BY <3>1, <3>2
  <2>4. \A a : \A n, v \in {0, 1, 2, Null} :
          Link(a, n, v).name \in Texts /\ Link(a, n, v).version \in Texts
    BY DEF Link, Texts
  <2>5. \A r \in Links : r.name \in Texts /\ r.version \in Texts
    BY <2>4 DEF Links
  <2>6. /\ d.systems \subseteq Links /\ d.languages \subseteq Links
        /\ \A rows \in {d.types, d.makers} : \A r \in rows : r.name \in Texts /\ r.version \in Texts
    BY <2>1, <2>4 DEF Database, TypeRows
  <2>7. IsFiniteSet(d.systems)
    <3>1. IsFiniteSet({}) /\ \A S, x : IsFiniteSet(S) => IsFiniteSet(S \cup {x})
      BY FS_EmptySet, FS_AddElement
    <3>2. Links = ((({} \cup {Link(app1, 1, 2)}) \cup {Link(app1, 2, 1)}) \cup {Link(app2, 1, 1)})
                    \cup {Link(app2, Null, 2)}
      BY DEF Links
    <3>3. IsFiniteSet(Links)
      BY <3>1, <3>2, Zenon
    <3> QED
      BY <2>6, <3>3, FS_Subset
  <2>8. /\ \A f \in d.files : f.name \in Texts /\ f.extension \in Texts
        /\ \A f, g \in d.files : f.hashes = g.hashes => f.object = g.object
    <3>1. d.files = {File(file1, 1, ext, Null), File(file2, ext, ext, 1)} /\ ext \in Texts /\ 1 \in Texts
      BY <2>1 DEF Database, Texts
    <3>2. \A o, n, e, q : LET f == File(o, n, e, q) IN
            f.name = n /\ f.extension = e /\ f.hashes = o /\ f.object = o
      BY DEF File
    <3> QED
      BY <3>1, <3>2
  <2> QED
    BY <2>2, <2>3, <2>5, <2>6, <2>7, <2>8 DEF Typed
<1> QED
  BY <1>1, <1>2

(* The latencies tried are the samples of two workers.                     *)
LEMMA SharesTyped ==
  ASSUME NEW n \in (0..12) \cup {20, 21, 50, 99, 100, 101}, NEW k \in {1, 10}
  PROVE  << [i \in 1..(n \div k) |-> n + 1 - i],
            [i \in 1..(n - n \div k) |-> n + 1 - n \div k - i] >> \in Seq(Seq(Nat))
<1>1. PICK m : m = n \div k
  OBVIOUS
<1>2. n \in Nat /\ m \in Nat /\ n - m \in Nat
  <2>1. CASE k = 1
    BY <1>1, <2>1
  <2>2. CASE k = 10
    BY <1>1, <2>2
  <2> QED
    BY <2>1, <2>2
<1> DEFINE fast == [i \in 1..m |-> n + 1 - i]
           slow == [i \in 1..(n - m) |-> n + 1 - m - i]
<1>3. fast \in Seq(Nat)
  <2>1. \A i \in 1..m : n + 1 - i \in Nat
    BY <1>2
  <2> QED
    BY <1>2, <2>1
<1>4. slow \in Seq(Nat)
  <2>1. \A i \in 1..(n - m) : n + 1 - m - i \in Nat
    BY <1>2
  <2> QED
    BY <1>2, <2>1
<1>5. <<fast, slow>> \in Seq(Seq(Nat))
  <2> HIDE DEF fast, slow
  <2> QED
    BY <1>3, <1>4
<1> QED
  BY <1>1, <1>5

LEMMA GivenAlways == Spec => []Given
<1>1. Init => Given
  <2> SUFFICES ASSUME Init PROVE Given
    OBVIOUS
  <2>1. SomeText \in Text
    BY SampleAssumption DEF SomeText, Text
  <2>2. <<>> \in Seq(Seq(Nat))
    OBVIOUS
  <2> QED
    BY <2>1, <2>2, DatabasesTyped DEF Init, Given, HashKinds
<1>2. Given /\ [Next]_vars => Given'
  <2> SUFFICES ASSUME Given, [Next]_vars PROVE Given'
    OBVIOUS
  <2>1. /\ column' \in HashKinds /\ cell' \in Text /\ query' \in Text
        /\ db' = db \/ db' \in Databases
    BY DEF Given, Next, vars, PickCell, PickQuery, PickDatabase, PickLatencies
  <2>2. perWorker' \in Seq(Seq(Nat))
    <3>1. CASE UNCHANGED perWorker
      BY <3>1 DEF Given
    <3>2. CASE PickLatencies
      BY <3>2, SharesTyped DEF PickLatencies
    <3> QED
      BY <3>1, <3>2 DEF Next, vars, PickCell, PickQuery, PickDatabase
  <2> QED
    BY <2>1, <2>2, DatabasesTyped DEF Given
<1> QED
  BY <1>1, <1>2, PTL DEF Spec

(* Any spelling of an imported hash finds it.                              *)
THEOREM EverySpelling == Spec => []EverySpellingFound
<1>1. Given => EverySpellingFound
  BY EverySpellingReachable DEF Given, EverySpellingFound
<1> QED
  BY <1>1, GivenAlways, PTL

(* No query hits a cell that holds other bytes or the wrong kind of hash.  *)
THEOREM NoFalseHits == Spec => []NoFalseHit
<1>1. Given => NoFalseHit
  BY HitsAreGenuine DEF Given, NoFalseHit
<1> QED
  BY <1>1, GivenAlways, PTL

(* The details of a record are those of one application of its package.    *)
THEOREM PackageDetails == Spec => []PackageDetailsGenuine
<1>1. Given => PackageDetailsGenuine
  BY DetailsAreGenuine DEF Given, PackageDetailsGenuine
<1> QED
  BY <1>1, GivenAlways, PTL

(* No file is left out for what it is linked to.                           *)
THEOREM NoFileLost == Spec => []NoFileLeftOut
<1>1. Given => NoFileLeftOut
  BY EveryFileKept DEF Given, NoFileLeftOut
<1> QED
  BY <1>1, GivenAlways, PTL

(* The percentiles of the merged samples are near the true ones.           *)
THEOREM PercentilesNearTrue == Spec => []PercentilesNear
<1>1. Given => PercentilesNear
  BY MergeType, NearEnough DEF Given, PercentilesNear
<1> QED
  BY <1>1, GivenAlways, PTL

(* Either schema gives the same records.                                   *)
THEOREM SameFromEither == Spec => []EitherSchema
<1>1. Given => EitherSchema
  BY SchemasGiveTheSame DEF Given, EitherSchema
<1> QED
  BY <1>1, GivenAlways, PTL
=============================================================================
