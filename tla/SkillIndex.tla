------------------------------- MODULE SkillIndex --------------------------------
(***************************************************************************)
(* The skill index and the server around it: start-up                      *)
(* (jadepaw-server/src/main.rs) walks the skills' directories              *)
(* (jadepaw-skill/src/loader.rs), reads each SKILL.md (index.rs) and puts  *)
(* a row per skill into SQLite (jadepaw-db/src/sqlite_skill_repo.rs); the  *)
(* routes (jadepaw-server/src/routes/skills.rs) then list the rows, and    *)
(* inspect and load the files.                                             *)
(*                                                                         *)
(* Files change at any time, also under a walk or a sync that has begun.   *)
(* The server may stop between any two steps: a crash, or an error that    *)
(* ends main.  Rows outlive it, each INSERT on its own.                    *)
(*                                                                         *)
(* A directory is the sequence of its names below skills_root.  What load  *)
(* does once the skill is in the registry is in SkillManager.              *)
(***************************************************************************)
EXTENDS SkillFile, FiniteSets

CONSTANTS
  Tenants,
  TenantNamed,   \* what parse_tenant_id_str makes of the names it accepts
  CanonicalName, \* TenantId::to_string
  Dirs,          \* the directories that may hold a SKILL.md
  Walked,        \* those of them that no symbolic link leads to
  Clients,       \* of the routes
  Contents,      \* what it may be in each of them, Absent for nothing
  Requested,     \* the skill names asked for, each a relative path
  Absent,
  Unreadable,    \* a file that is no UTF-8 text
  NoRequest

ASSUME SkillIndexAssumption ==
  /\ CanonicalName \in [Tenants -> DOMAIN TenantNamed]
  /\ \A t \in Tenants : TenantNamed[CanonicalName[t]] = t
  /\ \A d \in Dirs : Len(d) >= 2
  /\ Walked \subseteq Dirs

VARIABLES
  files,    \* the SKILL.md of each directory
  server,   \* where main is
  unseen,   \* the directories the walk has still to come to
  entries,  \* what the walk found, still to be read
  records,  \* what was read, still to be inserted
  rows,     \* the table skill_index
  request,  \* of each client: a load that has read its file
  loaded,   \* the skills in the registry
  changed,  \* history: the files that changed since the start-up began ...
  missed    \* ... and the directories it could not list

startup == <<unseen, entries, records>>

history == <<changed, missed>>

vars == <<files, server, startup, rows, request, loaded, history>>

Init ==
  /\ files \in {f \in [Dirs -> UNION {Contents[d] : d \in Dirs}] : \A d \in Dirs : f[d] \in Contents[d]}
  /\ server = "down"
  /\ unseen = {} /\ entries = <<>> /\ records = <<>>
  /\ rows = {}
  /\ request = [c \in Clients |-> NoRequest]
  /\ loaded = {}
  /\ changed = {} /\ missed = {}

--------------------------------------------------------------------------------
(* The files.                                                              *)

Change(d) ==
  /\ files' \in {[files EXCEPT ![d] = content] : content \in Contents[d] \ {files[d]}}
  /\ changed' = IF server = "down" THEN changed ELSE changed \cup {d}
  /\ UNCHANGED <<server, startup, rows, request, loaded, missed>>

Readable(content) == content \notin {Absent, Unreadable}

(* What reading and parsing the SKILL.md of a directory comes to, for a    *)
(* skill that should have a name.                                          *)
Read(d, name) ==
  IF d \notin Dirs \/ ~Readable(files[d]) THEN Err("ParseError")
  ELSE Parsed(files[d], name)

--------------------------------------------------------------------------------
(* Start-up.                                                               *)

(* Only the directory above a skill's names its tenant, however deep it is.*)
HasTenant(d) == d[Len(d) - 1] \in DOMAIN TenantNamed

TenantOf(d) == TenantNamed[d[Len(d) - 1]]

(* A row: its key, which skill_id is derived from, and the rest.           *)
Record(d, manifest) ==
  [tenant |-> TenantOf(d), name |-> manifest.name, manifest |-> manifest, dir |-> d]

Start ==
  /\ server = "down"
  /\ server' = "scanning"
  /\ unseen' = Walked
  /\ UNCHANGED <<files, entries, records, rows, request, loaded, history>>

(* scan_all comes to a directory, in the order of the file system; it does *)
(* not follow symbolic links.                                              *)
Scan(d) ==
  /\ server = "scanning" /\ d \in unseen
  /\ unseen' = unseen \ {d}
  /\ entries' = IF files[d] = Absent THEN entries ELSE Append(entries, d)
  /\ UNCHANGED <<files, server, records, rows, request, loaded, history>>

(* What the walk cannot list it passes over in silence.                    *)
Miss(d) ==
  /\ server = "scanning" /\ d \in unseen
  /\ unseen' = unseen \ {d}
  /\ missed' = missed \cup {d}
  /\ UNCHANGED <<files, server, entries, records, rows, request, loaded, changed>>

Scanned ==
  /\ server = "scanning" /\ unseen = {}
  /\ server' = "reading"
  /\ UNCHANGED <<files, startup, rows, request, loaded, history>>

(* Mutant: a file that cannot be indexed ends the reading.                 *)
ReadEntryOrStop ==
  /\ server = "reading" /\ entries # <<>>
  /\ LET d == Head(entries)
         parsed == Read(d, Last(d))
     IN  IF HasTenant(d) /\ parsed.error = "none"
         THEN /\ records' = Append(records, Record(d, parsed.manifest))
              /\ entries' = Tail(entries)
         ELSE entries' = <<>> /\ UNCHANGED records
  /\ UNCHANGED <<files, server, unseen, rows, request, loaded, history>>

(* sync: what cannot be read or parsed, or is nobody's, is passed over.    *)
ReadEntry ==
  /\ server = "reading" /\ entries # <<>>
  /\ entries' = Tail(entries)
  /\ LET d == Head(entries)
         parsed == Read(d, Last(d))
     IN  IF HasTenant(d) /\ parsed.error = "none"
         THEN records' = Append(records, Record(d, parsed.manifest))
         ELSE UNCHANGED records
  /\ UNCHANGED <<files, server, unseen, rows, request, loaded, history>>

(* Mutant: the table is emptied before the rows are inserted.              *)
EntriesReadAfresh ==
  /\ server = "reading" /\ entries = <<>>
  /\ server' = "writing"
  /\ rows' = {}
  /\ UNCHANGED <<files, startup, request, loaded, history>>

EntriesRead ==
  /\ server = "reading" /\ entries = <<>>
  /\ server' = "writing"
  /\ UNCHANGED <<files, startup, rows, request, loaded, history>>

SameKey(r, s) == r.tenant = s.tenant /\ r.name = s.name

(* sync_index: INSERT OR REPLACE, one record after the other.              *)
Upsert ==
  /\ server = "writing" /\ records # <<>>
  /\ rows' = {r \in rows : ~SameKey(r, Head(records))} \cup {Head(records)}
  /\ records' = Tail(records)
  /\ UNCHANGED <<files, server, unseen, entries, request, loaded, history>>

Serve ==
  /\ server = "writing" /\ records = <<>>
  /\ server' = "serving"
  /\ UNCHANGED <<files, startup, rows, request, loaded, history>>

(* A crash, or an error on the way: what is in memory is gone.             *)
Stop ==
  /\ server # "down"
  /\ server' = "down"
  /\ unseen' = {} /\ entries' = <<>> /\ records' = <<>>
  /\ request' = [c \in Clients |-> NoRequest]
  /\ loaded' = {}
  /\ changed' = {} /\ missed' = {}
  /\ UNCHANGED <<files, rows>>

--------------------------------------------------------------------------------
(* The routes.                                                             *)

Joined(path) == FoldLeft(LAMBDA name, part : name \o <<"/">> \o part, Head(path), Tail(path))

(* A path of one name is that name, and a longer one has a slash.          *)
ASSUME RequestAssumption ==
  \A path \in Requested : path = <<Joined(path)>> \/ "/" \in Range(Joined(path))

DirOf(tenant, path) == <<CanonicalName[tenant]>> \o path

Answer(status, manifest) == [status |-> status, manifest |-> manifest]

(* GET /skills/list: one tenant's rows.                                    *)
Listed(tenant) == {r \in rows : r.tenant = tenant}

(* GET /skills/inspect: from the file; what has no skill's name is not     *)
(* looked for.                                                             *)
Inspected(tenant, path) ==
  LET dir == DirOf(tenant, path)
      parsed == Read(dir, Joined(path))
  IN  IF ~ValidName(Joined(path)) THEN Answer(400, <<>>)
      ELSE IF dir \notin Dirs \/ ~Readable(files[dir]) THEN Answer(404, <<>>)
      ELSE IF parsed.error # "none" THEN Answer(400, <<>>)
      ELSE Answer(200, parsed.manifest)

(* POST /skills/load reads the file, and answers 400 if it is no good, ... *)
LoadReads(c, tenant, path) ==
  LET parsed == Read(DirOf(tenant, path), Joined(path))
      skill == [tenant |-> tenant, name |-> parsed.manifest.name,
                manifest |-> parsed.manifest, dir |-> DirOf(tenant, path)]
  IN  /\ server = "serving" /\ request[c] = NoRequest
      /\ parsed.error = "none"
      /\ request' = [request EXCEPT ![c] = [skill |-> skill, removed |-> FALSE]]
      /\ UNCHANGED <<files, server, startup, rows, loaded, history>>

(* ... removes the skill of its name, ...                                  *)
LoadRemoves(c) ==
  /\ request[c] # NoRequest /\ ~request[c].removed
  /\ loaded' = {s \in loaded : ~SameKey(s, request[c].skill)}
  /\ request' = [request EXCEPT ![c] = [skill |-> request[c].skill, removed |-> TRUE]]
  /\ UNCHANGED <<files, server, startup, rows, history>>

(* ... and inserts the one it read, which another load may have done by    *)
(* then.                                                                   *)
LoadInserts(c) ==
  /\ request[c] # NoRequest /\ request[c].removed
  /\ loaded' = loaded \cup {request[c].skill}
  /\ request' = [request EXCEPT ![c] = NoRequest]
  /\ UNCHANGED <<files, server, startup, rows, history>>

(* POST /skills/unload: it need not be loaded.                             *)
Unload(tenant, path) ==
  /\ server = "serving"
  /\ loaded' = {s \in loaded : ~(s.tenant = tenant /\ s.name = Joined(path))}
  /\ UNCHANGED <<files, server, startup, rows, request, history>>

--------------------------------------------------------------------------------
Startup ==
  \/ Start
  \/ \E d \in Dirs : Scan(d) \/ Miss(d)
  \/ Scanned \/ ReadEntry \/ EntriesRead \/ Upsert \/ Serve

Load(c) ==
  \/ \E t \in Tenants, path \in Requested : LoadReads(c, t, path)
  \/ LoadRemoves(c)
  \/ LoadInserts(c)

Route ==
  \/ \E c \in Clients : Load(c)
  \/ \E t \in Tenants, path \in Requested : Unload(t, path)

Next == Startup \/ Stop \/ Route \/ \E d \in Dirs : Change(d)

Spec == Init /\ [][Next]_vars

--------------------------------------------------------------------------------
(* The skill a directory holds, if it is one's.                            *)
IsSkill(d) == HasTenant(d) /\ Read(d, Last(d)).error = "none"

(* Once the server serves, every skill that the walk came to and whose     *)
(* file did not change since the start-up began has a row, whatever became *)
(* of the other files and of start-ups before (index.rs:13, "One broken    *)
(* skill does not block others from being indexed").  The row is that of   *)
(* the directory, as its file is, or of another directory that has the     *)
(* same skill of the same tenant.  And of these skills, what can be        *)
(* inspected is listed.  What a symbolic link leads to, and what could not *)
(* be listed, can be inspected too, and is not: the walk passes it over    *)
(* (loader.rs:72-75).                                                      *)
Reached == Walked \ missed

SkillsAreListed ==
  server = "serving" =>
    /\ \A d \in Reached \ changed : IsSkill(d) =>
         \E r \in Listed(TenantOf(d)) :
           /\ r.name = Last(d)
           /\ r.dir \notin changed =>
                IsSkill(r.dir) /\ r = Record(r.dir, Read(r.dir, Last(r.dir)).manifest)
    /\ \A t \in Tenants, path \in Requested :
         Inspected(t, path).status = 200 /\ DirOf(t, path) \in Reached \ changed =>
           \E r \in Listed(t) : r.name = Joined(path)

RowsFromTheirDirectory ==
  \A r \in rows : r.tenant = TenantOf(r.dir) /\ r.name = Last(r.dir)

LoadedFromTheirDirectory ==
  \A s \in loaded : s.dir = DirOf(s.tenant, <<s.name>>)

OneOfAKey(skills) == \A r, s \in skills : SameKey(r, s) => r = s

(* A loaded skill comes from the one directory that its tenant and its     *)
(* name lead to, though the routes ask for paths.  A row has the name of   *)
(* its directory and belongs to whom the directory above names, at any     *)
(* depth: a directory "global" among a tenant's own is everybody's, and    *)
(* its rows are.  No row is there twice; a loaded skill may be, when two   *)
(* loads both remove it before either inserts (SkillManager).              *)
FromItsDirectory ==
  /\ RowsFromTheirDirectory
  /\ LoadedFromTheirDirectory
  /\ OneOfAKey(rows)

(* What a tenant is shown stays in its list: a start-up that breaks off,   *)
(* at any step, takes nothing away that an earlier one had put there.      *)
ListedStays ==
  [][\A r \in rows : \E s \in rows' : SameKey(r, s)]_vars
================================================================================
