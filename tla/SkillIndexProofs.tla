---------------------------- MODULE SkillIndexProofs -----------------------------
(***************************************************************************)
(* Theorems about SkillIndex, for any tenants, directories, files and      *)
(* requests.                                                               *)
(***************************************************************************)
EXTENDS SkillIndex, TLAPS

--------------------------------------------------------------------------------
(* The parser (SkillFile).                                                 *)

ErrorNames == {"ParseError", "MissingFrontmatter", "MissingField", "InvalidName", "FieldTooLong",
               "NameDirectoryMismatch"}

(* A file without faults has a valid name, and faults are errors.          *)
LEMMA FaultsAreErrors ==
  ASSUME NEW file
  PROVE  /\ Faults(file) \in Seq(ErrorNames)
         /\ Faults(file) = <<>> => ValidName(Manifest(file).name)
<1> DEFINE fault(holds, error) == IF holds THEN <<>> ELSE <<error>>
           before == fault(file.size <= MaxFileSize, "ParseError")
                       \o fault(file.yaml # "broken", "ParseError")
                       \o fault(file.yaml # "absent", "MissingFrontmatter")
                       \o fault(HasText(file, "name"), "MissingField")
                       \o fault(HasText(file, "description"), "MissingField")
           name == fault(ValidName(Manifest(file).name), "InvalidName")
           after == fault(ValidDescription(Manifest(file).description), "FieldTooLong")
<1>1. Faults(file) = before \o name \o after
  BY DEF Faults
<1>2. \A holds, error : error \in ErrorNames => fault(holds, error) \in Seq(ErrorNames)
  OBVIOUS
<1>3. before \in Seq(ErrorNames) /\ name \in Seq(ErrorNames) /\ after \in Seq(ErrorNames)
  <2> HIDE DEF fault
  <2> QED
    BY <1>2 DEF ErrorNames
<1>4. ~ValidName(Manifest(file).name) => Len(name) = 1
  OBVIOUS
<1> HIDE DEF before, name, after
<1>5. before \o name \o after \in Seq(ErrorNames)
      /\ Len(before \o name \o after) = Len(before) + Len(name) + Len(after)
  BY <1>3
<1>6. Len(before) \in Nat /\ Len(after) \in Nat
  BY <1>3
<1>7. before \o name \o after = <<>> => Len(name) = 0
  BY <1>3, <1>5, <1>6
<1> QED
  BY <1>1, <1>4, <1>5, <1>7

(* What is parsed has the name of its directory, which is a skill's name.  *)
LEMMA ParsedHasName ==
  ASSUME NEW file, NEW dir_name, Parsed(file, dir_name).error = "none"
  PROVE  /\ Parsed(file, dir_name).manifest = Manifest(file)
         /\ Manifest(file).name = dir_name
         /\ ValidName(dir_name)
<1>1. Faults(file) = <<>>
  <2> SUFFICES ASSUME Faults(file) # <<>> PROVE FALSE
    OBVIOUS
  <2>1. Head(Faults(file)) \in ErrorNames
    BY FaultsAreErrors
  <2> QED
    BY <2>1 DEF Parsed, Err, ErrorNames
<1>2. Manifest(file).name = dir_name
  BY <1>1 DEF Parsed, Err
<1>3. Parsed(file, dir_name) = Ok(Manifest(file))
  BY <1>1, <1>2 DEF Parsed
<1> QED
  BY <1>1, <1>2, <1>3, FaultsAreErrors DEF Ok

(* A file read without an error is readable and has the name asked for.    *)
LEMMA ReadHasName ==
  ASSUME NEW d, NEW name, Read(d, name).error = "none"
  PROVE  /\ d \in Dirs /\ Readable(files[d])
         /\ Read(d, name).manifest = Manifest(files[d])
         /\ Manifest(files[d]).name = name
         /\ ValidName(name)
<1>1. d \in Dirs /\ Readable(files[d])
  BY DEF Read, Err
<1>2. Read(d, name) = Parsed(files[d], name)
  BY <1>1 DEF Read
<1> QED
  BY <1>1, <1>2, ParsedHasName

(* A request that leads to a skill's name is that one name.                *)
LEMMA RequestIsName ==
  ASSUME NEW path \in Requested, ValidName(Joined(path))
  PROVE  path = <<Joined(path)>>
BY RequestAssumption DEF ValidName, NameChars, Lowercase, Digits

--------------------------------------------------------------------------------
(* The inductive invariant.                                                *)

Texts == {content \in UNION {Contents[d] : d \in Dirs} : Readable(content)}

Records ==
  {[tenant |-> TenantOf(d), name |-> Last(d), manifest |-> Manifest(file), dir |-> d] :
     d \in {x \in Dirs : HasTenant(x)}, file \in Texts}

(* A skill that a request for it has read.                                 *)
ReadForRequest(s) ==
  /\ s.tenant \in Tenants
  /\ \E path \in Requested :
       s.name = Joined(path) /\ s.dir = DirOf(s.tenant, path) /\ ValidName(s.name)

IndexType ==
  /\ files \in [Dirs -> UNION {Contents[d] : d \in Dirs}]
  /\ server \in {"down", "scanning", "reading", "writing", "serving"}
  /\ unseen \subseteq Dirs
  /\ entries \in Seq(Dirs)
  /\ records \in Seq(Records)
  /\ rows \subseteq Records

UpToDate(r) ==
  r.dir \notin changed => IsSkill(r.dir) /\ r = Record(r.dir, Read(r.dir, Last(r.dir)).manifest)

Shows(r, d) == r.tenant = TenantOf(d) /\ r.name = Last(d) /\ UpToDate(r)

(* How far a start-up has come with a directory.                           *)
Underway(d) ==
  \/ server = "scanning" /\ d \in unseen
  \/ server \in {"scanning", "reading"} /\ \E k \in DOMAIN entries : entries[k] = d
  \/ server \in {"reading", "writing"} /\ \E k \in DOMAIN records : Shows(records[k], d)
  \/ server \in {"writing", "serving"} /\ \E r \in rows : Shows(r, d)

(* No skill gets lost between the walk and the table.                      *)
NoneLost ==
  /\ server = "down" => records = <<>>
  /\ \A k \in DOMAIN records : UpToDate(records[k])
  /\ server # "down" => \A d \in Reached \ changed : IsSkill(d) => Underway(d)

RequestsRead ==
  /\ DOMAIN request = Clients
  /\ \A c \in Clients : request[c] # NoRequest => ReadForRequest(request[c].skill)
  /\ \A s \in loaded : ReadForRequest(s)

NoneTwice == OneOfAKey(rows)

IndexInv == IndexType /\ NoneLost /\ RequestsRead /\ NoneTwice

(* A server that was never started has lost nothing.                       *)
LEMMA IndexInit ==
  Init => IndexInv
<1> SUFFICES ASSUME Init PROVE IndexInv
  OBVIOUS
<1>1. IndexType
  BY DEF Init, IndexType
<1>2. NoneLost /\ RequestsRead /\ NoneTwice
  BY DEF Init, NoneLost, RequestsRead, NoneTwice, OneOfAKey
<1> QED
  BY <1>1, <1>2 DEF IndexInv

(* While no file changes, what is up to date stays so.                     *)
LEMMA FilesUnmoved ==
  ASSUME UNCHANGED <<files, changed>>
  PROVE  /\ \A d : IsSkill(d)' <=> IsSkill(d)
         /\ \A r : UpToDate(r)' <=> UpToDate(r)
         /\ \A r, d : Shows(r, d)' <=> Shows(r, d)
<1>1. \A d, name : Read(d, name)' = Read(d, name)
  BY DEF Read
<1>2. \A d : IsSkill(d)' <=> IsSkill(d)
  BY <1>1 DEF IsSkill
<1>3. \A r : UpToDate(r)' <=> UpToDate(r)
  BY <1>1, <1>2 DEF UpToDate
<1> QED
  BY <1>2, <1>3 DEF Shows

(* A file that changes leaves the others as they are.                      *)
LEMMA FileChanges ==
  ASSUME IndexType, NEW x \in Dirs, Change(x), server # "down"
  PROVE  /\ changed' = changed \cup {x}
         /\ \A d \in Dirs \ {x} : IsSkill(d)' <=> IsSkill(d)
         /\ \A r \in Records : UpToDate(r) => UpToDate(r)'
         /\ \A d : \A r \in Records : Shows(r, d) => Shows(r, d)'
<1>1. changed' = changed \cup {x} /\ \A d \in Dirs \ {x} : files'[d] = files[d]
  BY DEF Change, IndexType
<1>2. \A name : \A d \in Dirs \ {x} : Read(d, name)' = Read(d, name)
  BY <1>1 DEF Read
<1>3. \A d \in Dirs \ {x} : IsSkill(d)' <=> IsSkill(d)
  BY <1>2 DEF IsSkill
<1>4. \A r \in Records : r.dir \in Dirs
  BY DEF Records
<1>5. \A r \in Records : UpToDate(r) => UpToDate(r)'
  BY <1>1, <1>2, <1>3, <1>4 DEF UpToDate
<1> QED
  BY <1>1, <1>3, <1>5 DEF Shows

(* A file that changes is no longer one that stayed.                       *)
LEMMA ChangeKeeps ==
  ASSUME IndexInv, NEW x \in Dirs, Change(x)
  PROVE  IndexInv'
<1>1. IndexType'
  BY DEF Change, startup, IndexInv, IndexType
<1>2. \A k \in DOMAIN records : records[k] \in Records
  BY DEF IndexInv, IndexType
<1>3. rows \subseteq Records
  BY DEF IndexInv, IndexType
<1>4. NoneLost'
  <2>1. UNCHANGED <<server, startup, rows>>
    BY DEF Change
  <2>2. CASE server = "down"
    BY <2>1, <2>2 DEF startup, IndexInv, NoneLost
  <2>3. CASE server # "down"
    <3>1. \A d \in Dirs : Underway(d) => Underway(d)'
      BY <1>2, <1>3, <2>1, <2>3, FileChanges DEF Underway, startup, IndexInv
    <3>2. \A k \in DOMAIN records' : UpToDate(records[k])'
      BY <1>2, <2>1, <2>3, FileChanges DEF startup, IndexInv, NoneLost
    <3>3. missed' = missed /\ Reached \subseteq Dirs
      BY SkillIndexAssumption DEF Change, Reached
    <3>4. \A d \in Reached' \ changed' : IsSkill(d)' => d \in Reached \ changed /\ IsSkill(d)
      BY <2>3, <3>3, FileChanges DEF IndexInv, Reached
    <3> QED
      BY <2>1, <2>3, <3>1, <3>2, <3>3, <3>4 DEF startup, IndexInv, NoneLost
  <2> QED
    BY <2>2, <2>3
<1>5. RequestsRead' /\ NoneTwice'
  BY DEF Change, IndexInv, RequestsRead, NoneTwice, OneOfAKey, ReadForRequest
<1> QED
  BY <1>1, <1>4, <1>5 DEF IndexInv

--------------------------------------------------------------------------------
(* The steps of a start-up.                                                *)

(* A start-up has everything to walk.                                      *)
LEMMA StartKeeps ==
  ASSUME IndexInv, Start
  PROVE  IndexInv'
<1>1. IndexType'
  BY SkillIndexAssumption DEF Start, IndexInv, IndexType
<1>2. NoneLost'
  BY DEF Start, IndexInv, NoneLost, Underway, Reached
<1>3. RequestsRead' /\ NoneTwice'
  BY DEF Start, IndexInv, RequestsRead, NoneTwice, OneOfAKey, ReadForRequest
<1> QED
  BY <1>1, <1>2, <1>3 DEF IndexInv

(* A directory that could not be listed is not among those reached.        *)
LEMMA MissKeeps ==
  ASSUME IndexInv, NEW x \in Dirs, Miss(x)
  PROVE  IndexInv'
<1> USE DEF IndexInv
<1>1. IndexType'
  BY DEF Miss, IndexType
<1>2. NoneLost'
  <2>1. /\ files' = files /\ changed' = changed /\ server' = server
        /\ entries' = entries /\ records' = records /\ rows' = rows
        /\ unseen' = unseen \ {x} /\ missed' = missed \cup {x}
    BY DEF Miss
  <2>2. \A d \in Dirs \ {x} : Underway(d) => Underway(d)'
    BY <2>1, FilesUnmoved DEF Underway
  <2>3. Reached \subseteq Dirs /\ Reached' = Reached \ {x}
    BY <2>1, SkillIndexAssumption DEF Reached
  <2> QED
    BY <2>1, <2>2, <2>3, FilesUnmoved DEF NoneLost
<1>3. RequestsRead' /\ NoneTwice'
  BY DEF Miss, RequestsRead, NoneTwice, OneOfAKey, ReadForRequest
<1> QED
  BY <1>1, <1>2, <1>3

(* A directory that was walked is found, if there is a file.               *)
LEMMA ScanKeeps ==
  ASSUME IndexInv, NEW x \in Dirs, Scan(x)
  PROVE  IndexInv'
<1> USE DEF IndexInv
<1>1. IndexType'
  BY DEF Scan, IndexType
<1>2. files' = files /\ changed' = changed /\ server' = server /\ server = "scanning"
      /\ records' = records /\ rows' = rows /\ Reached' = Reached
  BY DEF Scan, history, Reached
<1>3. \A d \in Reached \ changed : IsSkill(d) => Underway(d)'
  <2> SUFFICES ASSUME NEW d \in Reached \ changed, IsSkill(d) PROVE Underway(d)'
    OBVIOUS
  <2>1. CASE d \in unseen /\ d # x
    BY <1>2, <2>1 DEF Scan, Underway
  <2>2. CASE d \in unseen /\ d = x
    <3>1. files[x] # Absent
      BY <2>2 DEF IsSkill, Read, Readable, Err
    <3>2. entries' = Append(entries, x)
      BY <3>1 DEF Scan
    <3>3. Len(entries) + 1 \in DOMAIN entries' /\ entries'[Len(entries) + 1] = x
      BY <3>2 DEF IndexType
    <3> QED
      BY <1>2, <2>2, <3>3 DEF Underway
  <2>3. CASE \E k \in DOMAIN entries : entries[k] = d
    <3>1. \A k \in DOMAIN entries : k \in DOMAIN entries' /\ entries'[k] = entries[k]
      BY DEF Scan, IndexType
    <3> QED
      BY <1>2, <2>3, <3>1 DEF Underway
  <2> QED
    BY <1>2, <2>1, <2>2, <2>3 DEF NoneLost, Underway
<1>4. NoneLost'
  BY <1>2, <1>3, FilesUnmoved DEF NoneLost
<1>5. RequestsRead' /\ NoneTwice'
  BY DEF Scan, RequestsRead, NoneTwice, OneOfAKey, ReadForRequest
<1> QED
  BY <1>1, <1>4, <1>5

(* What was found is what is to be read.                                   *)
LEMMA ScannedKeeps ==
  ASSUME IndexInv, Scanned
  PROVE  IndexInv'
<1>1. IndexType'
  BY DEF Scanned, startup, IndexInv, IndexType
<1>2. NoneLost'
  <2>1. files' = files /\ changed' = changed /\ UNCHANGED startup /\ unseen = {}
        /\ server = "scanning" /\ server' = "reading" /\ Reached' = Reached
    BY DEF Scanned, history, Reached
  <2>2. \A d : Underway(d) => Underway(d)'
    BY <2>1 DEF Underway, startup
  <2> QED
    BY <2>1, <2>2, FilesUnmoved DEF IndexInv, NoneLost, startup
<1>3. RequestsRead' /\ NoneTwice'
  BY DEF Scanned, IndexInv, RequestsRead, NoneTwice, OneOfAKey, ReadForRequest
<1> QED
  BY <1>1, <1>2, <1>3 DEF IndexInv

(* The record of a file that is a skill.                                   *)
LEMMA RecordIsRight ==
  ASSUME IndexType, NEW d \in Dirs, IsSkill(d)
  PROVE  LET r == Record(d, Read(d, Last(d)).manifest) IN
         r \in Records /\ Shows(r, d) /\ r.dir = d
<1> DEFINE r == Record(d, Read(d, Last(d)).manifest)
<1>1. HasTenant(d) /\ Readable(files[d]) /\ Read(d, Last(d)).manifest = Manifest(files[d])
      /\ Manifest(files[d]).name = Last(d)
  BY ReadHasName DEF IsSkill
<1>2. r = [tenant |-> TenantOf(d), name |-> Last(d), manifest |-> Manifest(files[d]), dir |-> d]
  BY <1>1 DEF Record
<1>3. files[d] \in Texts
  BY <1>1 DEF Texts, IndexType, Readable
<1>4. r \in Records
  BY <1>1, <1>2, <1>3 DEF Records
<1>5. r.dir = d /\ r.tenant = TenantOf(d) /\ r.name = Last(d)
  BY <1>2
<1>6. Shows(r, d)
  BY <1>5 DEF Shows, UpToDate
<1> QED
  BY <1>4, <1>5, <1>6

(* A file that was read is a record, or was not readable.                  *)
LEMMA ReadEntryKeeps ==
  ASSUME IndexInv, ReadEntry
  PROVE  IndexInv'
<1> USE DEF IndexInv
<1> DEFINE d == Head(entries)
           r == Record(d, Read(d, Last(d)).manifest)
<1>1. d \in Dirs /\ entries \in Seq(Dirs) /\ entries # <<>> /\ entries' = Tail(entries)
      /\ records \in Seq(Records)
  BY DEF ReadEntry, IndexType
<1>2. files' = files /\ changed' = changed /\ server' = server /\ server = "reading"
      /\ rows' = rows /\ unseen' = unseen /\ Reached' = Reached
  BY DEF ReadEntry, history, Reached
<1>3. \/ IsSkill(d) /\ records' = Append(records, r)
      \/ ~IsSkill(d) /\ records' = records
  BY DEF ReadEntry, IsSkill
<1>4. IsSkill(d) => r \in Records /\ Shows(r, d)
  BY <1>1, RecordIsRight
<1> HIDE DEF d, r
<1>5. records' \in Seq(Records)
  BY <1>1, <1>3, <1>4
<1>6. IndexType'
  BY <1>1, <1>2, <1>5 DEF IndexType
<1>7. \A k \in DOMAIN records : k \in DOMAIN records' /\ records'[k] = records[k]
  <2>1. CASE records' = records
    BY <2>1
  <2>2. CASE records' = Append(records, r) /\ r \in Records
    BY <1>1, <2>2
  <2> QED
    BY <1>3, <1>4, <2>1, <2>2
<1>8. IsSkill(d) => \E k \in DOMAIN records' : records'[k] = r
  <2> SUFFICES ASSUME IsSkill(d) PROVE \E k \in DOMAIN records' : records'[k] = r
    OBVIOUS
  <2>1. Len(records) + 1 \in DOMAIN records' /\ records'[Len(records) + 1] = r
    BY <1>1, <1>3
  <2> QED
    BY <2>1
<1>9. \A k \in DOMAIN entries : entries[k] = d \/ \E j \in DOMAIN entries' : entries'[j] = entries[k]
  <2> SUFFICES ASSUME NEW k \in DOMAIN entries, k # 1
               PROVE  \E j \in DOMAIN entries' : entries'[j] = entries[k]
    BY <1>1 DEF d
  <2>1. k - 1 \in DOMAIN entries' /\ entries'[k - 1] = entries[k]
    BY <1>1
  <2> QED
    BY <2>1
<1>10. \A x \in Reached \ changed : IsSkill(x) => Underway(x)'
  <2> SUFFICES ASSUME NEW x \in Reached \ changed, IsSkill(x) PROVE Underway(x)'
    OBVIOUS
  <2>1. CASE \E k \in DOMAIN entries : entries[k] = x
    BY <1>2, <1>4, <1>8, <1>9, <2>1, FilesUnmoved DEF Underway
  <2>2. CASE \E k \in DOMAIN records : Shows(records[k], x)
    <3>1. PICK k \in DOMAIN records : Shows(records[k], x)
      BY <2>2
    <3>2. k \in DOMAIN records' /\ Shows(records'[k], x)
      BY <1>7, <3>1
    <3> QED
      BY <1>2, <3>2, FilesUnmoved DEF Underway
  <2> QED
    BY <1>2, <2>1, <2>2 DEF NoneLost, Underway
<1>11. \A k \in DOMAIN records' : UpToDate(records'[k])
  BY <1>1, <1>3, <1>4, <1>7 DEF NoneLost, Shows
<1>12. NoneLost'
  <2>1. \A k \in DOMAIN records' : UpToDate(records[k])'
    BY <1>2, <1>11, FilesUnmoved
  <2> QED
    BY <1>2, <1>10, <2>1, FilesUnmoved DEF NoneLost
<1>13. RequestsRead' /\ NoneTwice'
  BY DEF ReadEntry, RequestsRead, NoneTwice, OneOfAKey, ReadForRequest
<1> QED
  BY <1>6, <1>12, <1>13

(* Whatever was readable is a record to be written.                        *)
LEMMA EntriesReadKeeps ==
  ASSUME IndexInv, EntriesRead
  PROVE  IndexInv'
<1>1. IndexType'
  BY DEF EntriesRead, startup, IndexInv, IndexType
<1>2. NoneLost'
  <2>1. files' = files /\ changed' = changed /\ UNCHANGED startup /\ rows' = rows /\ entries = <<>>
        /\ server = "reading" /\ server' = "writing" /\ Reached' = Reached
    BY DEF EntriesRead, history, Reached
  <2>2. \A d : Underway(d) => Underway(d)'
    BY <2>1, FilesUnmoved DEF Underway, startup
  <2> QED
    BY <2>1, <2>2, FilesUnmoved DEF IndexInv, NoneLost, startup
<1>3. RequestsRead' /\ NoneTwice'
  BY DEF EntriesRead, IndexInv, RequestsRead, NoneTwice, OneOfAKey, ReadForRequest
<1> QED
  BY <1>1, <1>2, <1>3 DEF IndexInv

(* A record replaces the row of its key, and no other.                     *)
LEMMA UpsertKeeps ==
  ASSUME IndexInv, Upsert
  PROVE  IndexInv'
<1> USE DEF IndexInv
<1> DEFINE new == Head(records)
<1>1. new \in Records /\ records \in Seq(Records) /\ records # <<>> /\ records' = Tail(records)
      /\ rows \subseteq Records
  BY DEF Upsert, IndexType
<1>2. files' = files /\ changed' = changed /\ server' = server /\ server = "writing"
      /\ rows' = {r \in rows : ~SameKey(r, new)} \cup {new} /\ Reached' = Reached
  BY DEF Upsert, history, Reached
<1>3. new = records[1] /\ 1 \in DOMAIN records
  BY <1>1
<1> HIDE DEF new
<1>4. IndexType'
  BY <1>1, <1>2 DEF IndexType, Upsert
<1>5. UpToDate(new)
  BY <1>3 DEF NoneLost
<1>6. \A k \in DOMAIN records : records[k] = new \/ \E j \in DOMAIN records' : records'[j] = records[k]
  <2> SUFFICES ASSUME NEW k \in DOMAIN records, k # 1
               PROVE  \E j \in DOMAIN records' : records'[j] = records[k]
    BY <1>3
  <2>1. k - 1 \in DOMAIN records' /\ records'[k - 1] = records[k]
    BY <1>1
  <2> QED
    BY <2>1
<1>7. \A x \in Reached \ changed : IsSkill(x) => Underway(x)'
  <2> SUFFICES ASSUME NEW x \in Reached \ changed, IsSkill(x) PROVE Underway(x)'
    OBVIOUS
  <2>1. CASE \E k \in DOMAIN records : Shows(records[k], x)
    <3>1. PICK k \in DOMAIN records : Shows(records[k], x)
      BY <2>1
    <3>2. CASE records[k] = new
      BY <1>2, <3>1, <3>2, FilesUnmoved DEF Underway
    <3>3. CASE \E j \in DOMAIN records' : records'[j] = records[k]
      <4>1. PICK j \in DOMAIN records' : Shows(records'[j], x)
        BY <3>1, <3>3
      <4> QED
        BY <1>2, <4>1, FilesUnmoved DEF Underway
    <3> QED
      BY <1>6, <3>2, <3>3
  <2>2. CASE \E r \in rows : Shows(r, x)
    <3>1. PICK r \in rows : Shows(r, x)
      BY <2>2
    <3>2. CASE SameKey(r, new)
      <4>1. Shows(new, x)
        BY <1>5, <3>1, <3>2 DEF Shows, SameKey
      <4> QED
        BY <1>2, <4>1, FilesUnmoved DEF Underway
    <3>3. CASE ~SameKey(r, new)
      BY <1>2, <3>1, <3>3, FilesUnmoved DEF Underway
    <3> QED
      BY <3>2, <3>3
  <2> QED
    BY <1>2, <2>1, <2>2 DEF NoneLost, Underway
<1>8. \A k \in DOMAIN records' : UpToDate(records'[k])
  <2> SUFFICES ASSUME NEW k \in DOMAIN records' PROVE UpToDate(records'[k])
    OBVIOUS
  <2>1. k + 1 \in DOMAIN records /\ records'[k] = records[k + 1]
    BY <1>1
  <2> QED
    BY <2>1 DEF NoneLost
<1>9. NoneLost'
  BY <1>2, <1>7, <1>8, FilesUnmoved DEF NoneLost
<1>10. RequestsRead'
  BY DEF Upsert, RequestsRead, ReadForRequest
<1>11. NoneTwice'
  <2>1. OneOfAKey(rows')
    BY <1>2 DEF NoneTwice, OneOfAKey, SameKey
  <2> QED
    BY <2>1 DEF Upsert, NoneTwice, OneOfAKey
<1> QED
  BY <1>4, <1>9, <1>10, <1>11

(* Every record was written when the server serves.                        *)
LEMMA ServeKeeps ==
  ASSUME IndexInv, Serve
  PROVE  IndexInv'
<1>1. IndexType'
  BY DEF Serve, startup, IndexInv, IndexType
<1>2. NoneLost'
  <2>1. files' = files /\ changed' = changed /\ UNCHANGED startup /\ rows' = rows /\ records = <<>>
        /\ server = "writing" /\ server' = "serving" /\ Reached' = Reached
    BY DEF Serve, history, Reached
  <2>2. \A d : Underway(d) => Underway(d)'
    BY <2>1, FilesUnmoved DEF Underway, startup
  <2> QED
    BY <2>1, <2>2, FilesUnmoved DEF IndexInv, NoneLost, startup
<1>3. RequestsRead' /\ NoneTwice'
  BY DEF Serve, IndexInv, RequestsRead, NoneTwice, OneOfAKey, ReadForRequest
<1> QED
  BY <1>1, <1>2, <1>3 DEF IndexInv

(* A server that stops forgets what it read, and keeps its rows.           *)
LEMMA StopKeeps ==
  ASSUME IndexInv, Stop
  PROVE  IndexInv'
<1>1. IndexType'
  BY DEF Stop, IndexInv, IndexType
<1>2. NoneLost'
  BY DEF Stop, NoneLost
<1>3. RequestsRead' /\ NoneTwice'
  BY DEF Stop, IndexInv, RequestsRead, NoneTwice, OneOfAKey
<1> QED
  BY <1>1, <1>2, <1>3 DEF IndexInv

--------------------------------------------------------------------------------
(* The routes change the registry only.                                    *)

(* Requests read the path they ask for, and write no row.                  *)
LEMMA RouteKeeps ==
  ASSUME IndexInv, Route
  PROVE  IndexInv'
<1>1. UNCHANGED <<files, server, startup, rows, changed, missed>>
  BY DEF Route, Load, LoadReads, LoadRemoves, LoadInserts, Unload, history
<1>2. IndexType'
  BY <1>1 DEF startup, IndexInv, IndexType
<1>3. NoneLost'
  <2>1. Reached' = Reached
    BY <1>1 DEF Reached
  <2> QED
    BY <1>1, <2>1, FilesUnmoved DEF startup, IndexInv, NoneLost, Underway
<1>4. RequestsRead'
  <2>1. ASSUME NEW c \in Clients, NEW t \in Tenants, NEW path \in Requested, LoadReads(c, t, path)
        PROVE  RequestsRead'
    <3> DEFINE parsed == Read(DirOf(t, path), Joined(path))
               skill == [tenant |-> t, name |-> parsed.manifest.name,
                         manifest |-> parsed.manifest, dir |-> DirOf(t, path)]
    <3>1. parsed.error = "none" /\ loaded' = loaded
          /\ request' = [request EXCEPT ![c] = [skill |-> skill, removed |-> FALSE]]
      BY <2>1 DEF LoadReads
    <3>2. parsed.manifest.name = Joined(path) /\ ValidName(Joined(path))
      BY <3>1, ReadHasName
    <3>3. ReadForRequest(skill)
      BY <3>2 DEF ReadForRequest
    <3> HIDE DEF skill, parsed
    <3>4. DOMAIN request' = Clients
      BY <3>1 DEF IndexInv, RequestsRead
    <3>5. \A x \in Clients \ {c} : request'[x] = request[x]
      BY <3>1 DEF IndexInv, RequestsRead
    <3>6. request'[c].skill = skill
      BY <3>1 DEF IndexInv, RequestsRead
    <3> QED
      BY <3>1, <3>3, <3>4, <3>5, <3>6 DEF IndexInv, RequestsRead, ReadForRequest
  <2>2. ASSUME NEW c \in Clients, LoadRemoves(c)
        PROVE  RequestsRead'
    <3> DEFINE skill == request[c].skill
    <3>1. loaded' \subseteq loaded /\ ReadForRequest(skill)
          /\ request' = [request EXCEPT ![c] = [skill |-> skill, removed |-> TRUE]]
      BY <2>2 DEF LoadRemoves, IndexInv, RequestsRead
    <3> HIDE DEF skill
    <3>2. DOMAIN request' = Clients
      BY <3>1 DEF IndexInv, RequestsRead
    <3>3. \A x \in Clients \ {c} : request'[x] = request[x]
      BY <3>1 DEF IndexInv, RequestsRead
    <3>4. request'[c].skill = skill
      BY <3>1 DEF IndexInv, RequestsRead
    <3> QED
      BY <3>1, <3>2, <3>3, <3>4 DEF IndexInv, RequestsRead, ReadForRequest
  <2>3. ASSUME NEW c \in Clients, LoadInserts(c)
        PROVE  RequestsRead'
    <3>1. loaded' = loaded \cup {request[c].skill} /\ ReadForRequest(request[c].skill)
          /\ request' = [request EXCEPT ![c] = NoRequest]
      BY <2>3 DEF LoadInserts, IndexInv, RequestsRead
    <3>2. DOMAIN request' = Clients
      BY <3>1 DEF IndexInv, RequestsRead
    <3>3. \A x \in Clients : request'[x] = NoRequest \/ request'[x] = request[x]
      BY <3>1 DEF IndexInv, RequestsRead
    <3> QED
      BY <3>1, <3>2, <3>3 DEF IndexInv, RequestsRead, ReadForRequest
  <2>4. ASSUME NEW t \in Tenants, NEW path \in Requested, Unload(t, path)
        PROVE  RequestsRead'
    BY <2>4 DEF Unload, IndexInv, RequestsRead, ReadForRequest
  <2> QED
    BY <2>1, <2>2, <2>3, <2>4 DEF Route, Load
<1>5. NoneTwice'
  BY <1>1 DEF IndexInv, NoneTwice, OneOfAKey
<1> QED
  BY <1>2, <1>3, <1>4, <1>5 DEF IndexInv

(* The inductive invariant of the index.                                   *)
THEOREM IndexInvariant == Spec => []IndexInv
<1>1. Init => IndexInv
  BY IndexInit
<1>2. IndexInv /\ [Next]_vars => IndexInv'
  <2> SUFFICES ASSUME IndexInv, [Next]_vars PROVE IndexInv'
    OBVIOUS
  <2>1. CASE Startup
    BY <2>1, StartKeeps, ScanKeeps, MissKeeps, ScannedKeeps, ReadEntryKeeps, EntriesReadKeeps, UpsertKeeps,
       ServeKeeps DEF Startup
  <2>2. CASE UNCHANGED vars
    <3>1. IndexType' /\ RequestsRead' /\ NoneTwice'
      BY <2>2 DEF vars, startup, IndexInv, IndexType, RequestsRead, ReadForRequest, NoneTwice,
         OneOfAKey
    <3>2. NoneLost'
      BY <2>2, FilesUnmoved DEF vars, startup, history, IndexInv, NoneLost, Underway, Reached
    <3> QED
      BY <3>1, <3>2 DEF IndexInv
  <2> QED
    BY <2>1, <2>2, StopKeeps, RouteKeeps, ChangeKeeps DEF Next
<1> QED
  BY <1>1, <1>2, PTL DEF Spec

--------------------------------------------------------------------------------
(* The theorems.                                                           *)

(* Where a request for the one name of a skill leads.                      *)
LEMMA DirectoryOfName ==
  ASSUME NEW t \in Tenants, NEW name
  PROVE  LET d == DirOf(t, <<name>>) IN HasTenant(d) /\ TenantOf(d) = t /\ Last(d) = name
<1> DEFINE d == DirOf(t, <<name>>)
<1>1. <<CanonicalName[t]>> \in Seq({CanonicalName[t], name})
      /\ <<name>> \in Seq({CanonicalName[t], name})
  OBVIOUS
<1>2. Len(d) = 2 /\ d[1] = CanonicalName[t] /\ d[2] = name
  BY <1>1 DEF DirOf
<1> HIDE DEF d
<1>3. HasTenant(d) /\ TenantOf(d) = t /\ Last(d) = name
  BY <1>2, SkillIndexAssumption DEF HasTenant, TenantOf, Last
<1> QED
  BY <1>3 DEF d

(* A loaded skill comes from the directory that its tenant and its name    *)
(* lead to (manager.rs:85), a row from one that has its name, in one that  *)
(* names its tenant (loader.rs), and no row is there twice.                *)
THEOREM FromItsDirectoryHolds == Spec => []FromItsDirectory
<1>1. ASSUME IndexInv PROVE FromItsDirectory
  <2>1. RowsFromTheirDirectory
    BY <1>1 DEF IndexInv, IndexType, RowsFromTheirDirectory, Records
  <2>2. LoadedFromTheirDirectory
    <3> SUFFICES ASSUME NEW s \in loaded PROVE s.dir = DirOf(s.tenant, <<s.name>>)
      BY DEF LoadedFromTheirDirectory
    <3>1. PICK path \in Requested :
            s.name = Joined(path) /\ s.dir = DirOf(s.tenant, path) /\ ValidName(s.name)
      BY <1>1 DEF IndexInv, RequestsRead, ReadForRequest
    <3> QED
      BY <3>1, RequestIsName
  <2> QED
    BY <1>1, <2>1, <2>2 DEF IndexInv, NoneTwice, FromItsDirectory
<1> QED
  BY <1>1, IndexInvariant, PTL

(* Once the server serves, no skill that the walk came to, and whose file  *)
(* stayed as it was since the start-up began, is missing from the table,   *)
(* whatever the other files, and start-ups that broke off, are like        *)
(* (main.rs, loader.rs:72, index.rs:13).                                   *)
THEOREM SkillsAreListedHolds == Spec => []SkillsAreListed
<1>1. ASSUME IndexInv, server = "serving",
             NEW d \in Reached \ changed, IsSkill(d)
      PROVE  \E r \in Listed(TenantOf(d)) : r.name = Last(d) /\ UpToDate(r)
  <2>1. Underway(d)
    BY <1>1 DEF IndexInv, NoneLost
  <2> QED
    BY <1>1, <2>1 DEF Underway, Shows, Listed
<1>2. ASSUME IndexInv, server = "serving", NEW t \in Tenants, NEW path \in Requested,
             Inspected(t, path).status = 200, DirOf(t, path) \in Reached \ changed
      PROVE  \E r \in Listed(t) : r.name = Joined(path)
  <2> DEFINE d == DirOf(t, path)
  <2>1. ValidName(Joined(path)) /\ d \in Dirs /\ Read(d, Joined(path)).error = "none"
    BY <1>2 DEF Inspected, Answer
  <2>2. path = <<Joined(path)>>
    BY <2>1, RequestIsName
  <2>3. HasTenant(d) /\ TenantOf(d) = t /\ Last(d) = Joined(path)
    BY <2>2, DirectoryOfName
  <2>4. IsSkill(d)
    BY <2>1, <2>3 DEF IsSkill
  <2> HIDE DEF d
  <2>5. d \in Reached \ changed
    BY <1>2 DEF d
  <2> QED
    BY <1>1, <1>2, <2>3, <2>4, <2>5
<1>3. IndexInv => SkillsAreListed
  BY <1>1, <1>2 DEF SkillsAreListed, UpToDate
<1> QED
  BY <1>3, IndexInvariant, PTL

(* No step takes a skill out of a tenant's list: a start-up that breaks    *)
(* off leaves what an earlier one put there (sqlite_skill_repo.rs:63).     *)
THEOREM ListedStaysHolds == Spec => ListedStays
<1>1. [Next]_vars => [\A r \in rows : \E s \in rows' : SameKey(r, s)]_vars
  <2> SUFFICES ASSUME [Next]_vars, NEW r \in rows PROVE \E s \in rows' : SameKey(r, s)
    OBVIOUS
  <2>1. CASE Upsert
    BY <2>1 DEF Upsert, SameKey
  <2>2. CASE rows' = rows
    BY <2>2 DEF SameKey
  <2> QED
    BY <2>1, <2>2 DEF vars, Next, Startup, Start, Scan, Scanned, ReadEntry, EntriesRead, Serve,
       Miss, Stop, Route, Load, LoadReads, LoadRemoves, LoadInserts, Unload, Change
<1> QED
  BY <1>1, PTL DEF Spec, ListedStays
================================================================================
