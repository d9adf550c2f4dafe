----------------------------- MODULE Extensions -----------------------------
(***************************************************************************)
(* The extension manager, the trust store and the external tool runner     *)
(* (src/app/src/extension_manager.cpp, extension_manifest.cpp,             *)
(* extension_trust_store.cpp, external_tool_runner.cpp and the handlers of *)
(* app.cpp that use them).                                                 *)
(*                                                                         *)
(* An extension is a folder with a manifest.  The folders are found in     *)
(* four places, in this order: the source tree, the directory of the       *)
(* program, the user's home and the directory of the open project.  What   *)
(* a manifest says is abstracted to what discovery tells apart: the id,    *)
(* the kind, which fields are wrong, the oldest release it asks for, and   *)
(* the folder it resolves to, which a link may put in another place.  The  *)
(* folders do not change while the program runs.                           *)
(***************************************************************************)
EXTENDS Naturals, Sequences, FiniteSets

CONSTANTS
    Dirs,        \* directories a project can be in
    Cwd,         \* the one the program was started in
    Folders,     \* extension folders, by their canonical paths
    PlaceOf,     \* [Folders -> the place a folder is really in]
    Found,       \* [places -> Seq(manifest)]: what a place lists, in order
    Release,     \* APP_VERSION, a sequence of numbers
    NoFolder,
    Cut,         \* a trust file that does not parse
    NoId         \* of a manifest whose id cannot be read

Places == {"source", "exe", "home"} \cup Dirs

\* The fields whose form is checked on their own; "wrong" lists those that fail.
Fields == {"schema_version", "id", "name", "version", "description", "author", "compat",
           "kind", "capabilities", "menus"}
Manifests ==
    {m \in [folder : Folders, json : BOOLEAN, id : STRING \cup {NoId},
            kind : {"data-pack", "external-tool"}, entry : {"absent", "inside", "outside"},
            roots : {"inside", "outside"}, wrong : SUBSET Fields,
            minimum : Seq(Nat), numeric : BOOLEAN] :
        IF m.json THEN m.id = NoId => "id" \in m.wrong ELSE m.id = NoId}

ASSUME ExtensionsAssumption ==
    /\ Cwd \in Dirs
    /\ PlaceOf \in [Folders -> Places]
    /\ NoFolder \notin Folders
    /\ Release \in Seq(Nat)
    /\ Found \in [Places -> Seq(Manifests)]
    /\ \A S \in SUBSET Folders : Cut # S

VARIABLES
    approved,  \* m_entries of the trust store
    store,     \* the trust file: a set of folders, or Cut
    pending,   \* m_pending_trust_manifest: the folder the prompt shows
    granted,   \* history: folders trusted at a prompt, but for those whose revocation was written
    ran        \* history: the folder the last step launched

extensionVars == <<approved, store, pending, granted, ran>>

-----------------------------------------------------------------------------
(* Discovery.  A dir is the directory of the last rescan.  *)

\* resolveWithinRoot: an entry or a root outside the folder is refused, and a
\* tool has an entry.
EntryIssues(m) ==
    IF m.entry = "outside" \/ (m.kind = "external-tool" /\ m.entry = "absent")
    THEN {"entry"} ELSE {}
RootIssues(m) == IF m.roots = "outside" THEN {"library_roots"} ELSE {}

\* parseExtensionManifest: every issue refuses the manifest.
Parses(m) == m.json /\ m.wrong \cup EntryIssues(m) \cup RootIssues(m) = {}

\* readManifestId: a manifest that is refused may still have an id.
IdOf(m) == IF m.json THEN m.id ELSE NoId

\* compareVersions: a version that is shorter goes on with zeros.
Part(v, i) == IF i \in DOMAIN v THEN v[i] ELSE 0
Newer(v, w) ==
    \E i \in DOMAIN v : Part(v, i) > Part(w, i) /\ \A j \in 1..(i - 1) : Part(v, j) = Part(w, j)

\* statusForManifest: a minimum that is no version is not satisfied.
Fits(m) == m.minimum = <<>> \/ (m.numeric /\ ~Newer(m.minimum, Release))

\* scanRoots: the built-in and the user's places, then the project's.
Listed(dir) == Found["source"] \o Found["exe"] \o Found["home"] \o Found[dir]
Installed == DOMAIN (Found["source"] \o Found["exe"] \o Found["home"])

\* loadRoot: the first manifest that claims an id keeps it, whatever its status.
Status(dir, i) ==
    LET m == Listed(dir)[i]
    IN  IF IdOf(m) # NoId /\ \E j \in 1..(i - 1) : IdOf(Listed(dir)[j]) = IdOf(m)
        THEN "Shadowed"
        ELSE IF ~Parses(m) THEN "Invalid" ELSE IF ~Fits(m) THEN "Incompatible" ELSE "Ok"

\* isProjectLocal: found through the project's own place, or really in it.
ProjectLocal(dir, folder) ==
    \/ \E i \in DOMAIN Found[dir] : Parses(Found[dir][i]) /\ Found[dir][i].folder = folder
    \/ PlaceOf[folder] = dir

\* externalTools: the positions of the tools that can be run at all.
Tools(dir) == {i \in DOMAIN Listed(dir) : Status(dir, i) = "Ok" /\ Listed(dir)[i].kind = "external-tool"}

\* Mutant: a folder that a link puts elsewhere is not the project's.
RequiresTrustByPlace(dir, i) ==
    LET folder == Listed(dir)[i].folder IN PlaceOf[folder] = dir /\ folder \notin approved

\* extensionRequiresTrust, of the tool at a position of the manager's records.
RequiresTrust(dir, i) ==
    LET folder == Listed(dir)[i].folder
    IN  ProjectLocal(dir, folder) /\ folder \notin approved

\* toolsMenuEntries.
Offered(dir) == {i \in Tools(dir) : ~RequiresTrust(dir, i)}

-----------------------------------------------------------------------------
(* The trust store.  *)

\* What the file approves: one that is not whole, or not of this schema, nothing.
Contents(s) == IF s = Cut THEN {} ELSE s

\* load(): the memory is cleared first, and stays empty when the file cannot be
\* examined or opened.
Loads(s) == {Contents(s), {}}

\* Mutant: what was in memory stays there when the file could not be written.
SavesNoReload(entries) ==
    /\ store' \in {entries, store, Cut} /\ approved' = entries

(* save(): the file is truncated, written, flushed and closed; it can fail   *)
(* before, between and after, and the caller reads the file again when it    *)
(* did.  The second disjunct is a failure.                                   *)
Saves(entries) ==
    \/ store' = entries /\ approved' = entries
    \/ store' \in {store, Cut, entries} /\ approved' \in Loads(store')

\* grantPendingExtensionTrust and approve(): the manifest is complete, since a
\* tool without id, version or entry does not parse.
Grant ==
    /\ Saves(approved \cup {pending})
    /\ granted' = granted \cup {pending}
    /\ pending' = NoFolder

\* denyPendingExtensionTrust.
Deny == pending' = NoFolder /\ UNCHANGED <<approved, store, granted>>

\* revoke(): a folder without approval is revoked already.  Of a revocation that
\* did not reach the file the user is told that it could not be saved.
Revoke(folder) ==
    /\ folder \in approved
    /\ Saves(approved \ {folder})
    /\ granted' = IF folder \in Contents(store') THEN granted ELSE granted \ {folder}
    /\ UNCHANGED pending

-----------------------------------------------------------------------------
(* Running a tool.  *)

\* launchProcess: a group of its own, which is killed after the time limit.
ProcessEnds == {"notLaunched", "exited", "failed", "timedOut"}

\* ExternalToolRunner::run: "ok" only when the process ended with code 0 and left
\* a result, in the folder made for this run, that is not too large to read.
RunOutcomes == (ProcessEnds \ {"exited"}) \cup {"noResult", "ok"}

\* runExternalTool: refused without trust.
RunTool(dir, i, outcome) ==
    /\ ~RequiresTrust(dir, i)
    /\ ran' = IF outcome = "notLaunched" THEN NoFolder ELSE Listed(dir)[i].folder
    /\ UNCHANGED <<approved, store, granted, pending>>
=============================================================================
