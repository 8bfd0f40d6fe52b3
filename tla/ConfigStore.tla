---------------------------- MODULE ConfigStore ----------------------------
(***************************************************************************)
(* The settings files and who reads them: one config per controller in     *)
(* configs\ (config/config_store.inl), the shared ctm-device-config.txt    *)
(* (config/device_config.inl), the thread that watches it                  *)
(* (config/config_watcher.inl), the requests that change a config          *)
(* (app/rest_config.inl), and what a live session has been sent.           *)
(*                                                                         *)
(* Requests, the sweep and a session's start run one after the other on    *)
(* the agent's loop.  Beside them run the watcher and one worker for each  *)
(* session.  A write of a config truncates the file and fills it later,    *)
(* and no lock keeps a reload from reading between.  A file's settings are *)
(* a number that grows with each change; what a session has been sent is   *)
(* what was sent last.                                                     *)
(***************************************************************************)
EXTENDS Integers, FiniteSets

CONSTANTS Config,      \* the names a config may have
          CfgSerial,   \* the serials of the controllers
          CfgSession,  \* the sessions, and the serial each reports
          SerialOf,
          MaxEdits     \* bound: requests that change a file, and edits of the shared file

Shared == "shared"
NoFile == [claims |-> {}, ver |-> -1]
NoWork == [at |-> "idle", to |-> Shared, put |-> NoFile, more |-> 0, from |-> Shared, link |-> Shared,
           new |-> {}]

ASSUME CfgAssumption ==
    /\ Shared \notin Config /\ "none" \notin CfgSerial
    /\ SerialOf \in [CfgSession -> CfgSerial] /\ MaxEdits \in Nat

VARIABLES file,      \* the files of configs\: a truncated one holds no [config]
          shared,    \* the settings in ctm-device-config.txt
          table,     \* g_files: the claims of each config that was loaded
          section,   \* g_device_config: the settings by section, -1 when there is none
          stamp,     \* last_seen_write
          told,      \* the change notification is signalled
          watch,     \* the watcher's next step
          pending,   \* change_pending
          work,      \* the request the agent's loop is in
          todo,      \* the sessions its sweep has yet to send to
          link,      \* linkedConfig, the session's and its device's; Shared for none
          phase,     \* a session: "none", "linking", "ready", "reading", "settled"
          taken,     \* the link its worker has read
          sent,      \* history: the settings it was sent last, and whether they came late
          edits

cfgVars == <<file, shared, table, section, stamp, told, watch, pending, work, todo, link,
             phase, taken, sent, edits>>
diskVars == <<file, shared, stamp, told, edits>>
linkVars == <<link, phase, taken, sent>>

NoPush == [of |-> <<Shared, -1>>, late |-> FALSE]
There(c) == file[c].ver >= 0
Loaded   == {c \in Config : table[c] # {"none"}}
Idle     == work.at = "idle" /\ todo = {}
Ready(s) == phase[s] \in {"ready", "reading", "settled"}

ConfigInit ==
    /\ file = [c \in Config |-> NoFile] /\ shared = 0
    /\ table = [c \in Config |-> {"none"}]
    /\ section = [c \in Config \cup {Shared} |-> -1]
    /\ stamp = 0 /\ told = FALSE /\ watch = "waits"
    /\ pending = FALSE /\ work = NoWork /\ todo = {}
    /\ link = [s \in CfgSession |-> Shared] /\ phase = [s \in CfgSession |-> "none"]
    /\ taken = link /\ sent = [s \in CfgSession |-> NoPush]
    /\ edits = 0

----------------------------------------------------------------------------
(* What is loaded.                                                          *)

\* config_store::load_one_locked: no [config] line, no config.
LoadOne(c) == IF There(c) THEN file[c].claims ELSE {"none"}

\* config_store::reload_all: every cfg: section is erased and read again.
ReloadAll ==
    /\ table' = [c \in Config |-> LoadOne(c)]
    /\ section' = [x \in Config \cup {Shared} |-> IF x = Shared THEN section[x] ELSE file[x].ver]

\* device_config_load_locked: the shared file is read when a value is asked for and it is
\* not loaded.
LoadShared == IF section[Shared] < 0 THEN shared ELSE section[Shared]

\* device_config_str, _int and _bool, through device_settings_section: what a session that
\* is linked to c reads.
Reads(c) == IF c = Shared THEN LoadShared ELSE section[c]

\* config_store::claimed_by and auto_link_for.
ClaimedBy(n, except) == {c \in Loaded \ {except} : n \in table[c]}
AutoLink(n) == IF ClaimedBy(n, Shared) = {} THEN {Shared} ELSE ClaimedBy(n, Shared)

----------------------------------------------------------------------------
(* Requests.  A request that writes a file truncates it first.              *)

EditsBy(n) == edits + n <= MaxEdits /\ edits' = edits + n
Edits == EditsBy(1)

Writes(f, c, put, more, new) ==
    /\ Idle /\ EditsBy(1 + more)
    /\ file' = [f EXCEPT ![c] = NoFile]
    /\ work' = [NoWork EXCEPT !.at = "filling", !.to = c, !.put = put, !.more = more, !.new = new]
    /\ UNCHANGED <<shared, stamp, told, table, section, watch, pending, todo, linkVars>>

\* ctm_presets: each preset is a list of settings that are written one after the other.
Preset == 0..2

\* POST /configs: create_config, then a set_setting for each line of the preset, and a
\* device it was made for is linked to it.
Create(c) ==
    \E n \in Preset, new \in {{}} \cup {{s} : s \in {t \in CfgSession : phase[t] # "none"}} :
        c \notin Loaded /\ Writes(file, c, [claims |-> {}, ver |-> edits], n, new)

\* POST /configs/<name>/settings: config_store::set_setting for each, the lines that are
\* there and one of them changed.
SetSetting(c) ==
    \E n \in 0..1 :
        c \in Loaded /\ There(c) /\ Writes(file, c, [file[c] EXCEPT !.ver = edits], n, {})

\* config_store::add_auto_link and set_auto_link_line: refused when another config has it.
AddClaim(c, n) ==
    /\ c \in Loaded /\ ClaimedBy(n, c) = {} /\ n \notin table[c]
    /\ Writes(file, c, [claims |-> table[c] \cup {n}, ver |-> file[c].ver], 0, {})

\* config_store::remove_auto_link.
RemoveClaim(c, n) ==
    c \in Loaded /\ Writes(file, c, [claims |-> table[c] \ {n}, ver |-> file[c].ver], 0, {})

CopyWithClaims(c, d) == c \in Loaded /\ d \notin Loaded /\ Writes(file, d, file[c], 0, {})
\* config_store::copy_config: everything but the claims.
Copy(c, d) ==
    c \in Loaded /\ d \notin Loaded /\ Writes(file, d, [file[c] EXCEPT !.claims = {}], 0, {})

\* config_store::rename_config: the file is moved, and its first line is written again.
RenameConfig(c, d) ==
    /\ c \in Loaded /\ d \notin Loaded
    /\ Idle /\ Edits
    /\ file' = [file EXCEPT ![c] = NoFile, ![d] = NoFile]
    /\ work' = [NoWork EXCEPT !.at = "filling", !.to = d, !.put = file[c], !.from = c, !.link = d]
    /\ UNCHANGED <<shared, stamp, told, table, section, watch, pending, todo, linkVars>>

\* config_store::archive_config: the file is moved to configs\archive.
Archive(c) ==
    /\ c \in Loaded /\ Idle /\ Edits
    /\ file' = [file EXCEPT ![c] = NoFile]
    /\ work' = [NoWork EXCEPT !.at = "written", !.from = c]
    /\ UNCHANGED <<shared, stamp, told, table, section, watch, pending, todo, linkVars>>

Fills ==
    /\ work.at = "filling"
    /\ file' = [file EXCEPT ![work.to] = work.put]
    /\ work' = [work EXCEPT !.at = "written"]
    /\ UNCHANGED <<shared, stamp, told, edits, table, section, watch, pending, todo, linkVars>>

\* The end of every verb: reload_all, notify_changed, and what its caller does next.
Reloads ==
    /\ work.at = "written"
    /\ ReloadAll /\ pending' = TRUE
    /\ CASE work.more > 0 ->
               /\ file' = [file EXCEPT ![work.to] = NoFile]
               /\ work' = [work EXCEPT !.at = "filling", !.more = @ - 1, !.put.ver = @ + 1]
         [] work.more = 0 /\ (work.from # Shared \/ work.new # {}) ->
               work' = [work EXCEPT !.at = "relink"] /\ UNCHANGED file
         [] OTHER -> work' = NoWork /\ UNCHANGED file
    /\ UNCHANGED <<shared, stamp, told, edits, watch, todo, linkVars>>

\* rest_link_device: refused for a config that is not loaded.
Links(s, c) == c \in Loaded \cup {Shared}

\* rename and archive re-point every session that was reading the config, and create the
\* device it was given.
Relink ==
    /\ work.at = "relink" /\ work' = NoWork
    /\ LET moved == {s \in CfgSession : phase[s] # "none" /\ link[s] = work.from}
           goes(s) == IF s \in work.new THEN work.to ELSE work.link IN
       link' = [s \in CfgSession |->
                  IF s \in work.new \cup (IF work.from = Shared THEN {} ELSE moved) /\ Links(s, goes(s))
                  THEN goes(s) ELSE link[s]]
    /\ pending' = (pending \/ link' # link)
    /\ UNCHANGED <<diskVars, table, section, watch, todo, phase, taken, sent>>

\* POST /devices/<ordinal>/link.
LinkDevice(s, c) ==
    /\ Idle /\ phase[s] # "none" /\ Links(s, c) /\ link[s] # c /\ Edits
    /\ link' = [link EXCEPT ![s] = c] /\ pending' = TRUE
    /\ UNCHANGED <<file, shared, stamp, told, table, section, watch, work, todo, phase, taken, sent>>

\* GET /configs and /configs/<name>: what they show is read from the disk first.
Lists ==
    /\ Idle /\ table' = [c \in Config |-> LoadOne(c)]
    /\ section' = [x \in Config \cup {Shared} |-> IF x = Shared THEN shared ELSE file[x].ver]
    /\ UNCHANGED <<diskVars, watch, pending, work, todo, linkVars>>

----------------------------------------------------------------------------
(* The watcher.                                                             *)

\* Someone saves ctm-device-config.txt.
EditShared ==
    /\ Edits /\ shared' = shared + 1 /\ told' = TRUE
    /\ UNCHANGED <<file, stamp, table, section, watch, pending, work, todo, linkVars>>

\* watch_loop: woken, it waits until the saves are over.
Wakes == /\ watch = "waits" /\ told /\ told' = FALSE /\ watch' = "looks"
         /\ UNCHANGED <<file, shared, stamp, edits, table, section, pending, work, todo, linkVars>>

\* config_changed.
ConfigChanged ==
    /\ watch = "looks" /\ stamp' = shared
    /\ watch' = IF stamp = shared THEN "waits" ELSE "applies"
    /\ UNCHANGED <<file, shared, told, edits, table, section, pending, work, todo, linkVars>>

\* apply_change: device_config_invalidate keeps the cfg: sections.
Invalidates ==
    /\ watch = "applies" /\ watch' = "reloads"
    /\ section' = [section EXCEPT ![Shared] = -1]
    /\ UNCHANGED <<diskVars, table, pending, work, todo, linkVars>>

ApplyQuietly == /\ watch = "reloads" /\ watch' = "waits" /\ ReloadAll
                /\ UNCHANGED <<diskVars, pending, work, todo, linkVars>>
\* apply_change: reload_all, and only then the flag.
ApplyChange ==
    /\ watch = "reloads" /\ watch' = "waits" /\ ReloadAll /\ pending' = TRUE
    /\ UNCHANGED <<diskVars, work, todo, linkVars>>

----------------------------------------------------------------------------
(* Sessions.                                                                *)

\* start_bridge_session reads every file again.
Starts(s) ==
    /\ Idle /\ phase[s] = "none" /\ phase' = [phase EXCEPT ![s] = "linking"]
    /\ table' = [c \in Config |-> LoadOne(c)]
    /\ section' = [x \in Config \cup {Shared} |-> IF x = Shared THEN -1 ELSE file[x].ver]
    /\ UNCHANGED <<diskVars, watch, pending, work, todo, link, taken, sent>>

\* bridge_session_worker, under the session's mutex, then ready.
AutoLinks(s) ==
    /\ phase[s] = "linking" /\ phase' = [phase EXCEPT ![s] = "ready"]
    /\ \E c \in IF link[s] = Shared THEN AutoLink(SerialOf[s]) ELSE {link[s]} :
         link' = [link EXCEPT ![s] = c]
    /\ UNCHANGED <<diskVars, table, section, watch, pending, work, todo, taken, sent>>

\* The settings a session begins with: its link is read, let go of, and then sent.
TakesLink(s) ==
    /\ phase[s] = "ready" /\ phase' = [phase EXCEPT ![s] = "reading"]
    /\ taken' = [taken EXCEPT ![s] = link[s]]
    /\ UNCHANGED <<diskVars, table, section, watch, pending, work, todo, link, sent>>

\* The settings of the file a session reads.
Current(s) == <<link[s], IF link[s] = Shared THEN shared ELSE file[link[s]].ver>>

\* The settings of c go to s.  They come late when a sweep has sent to the session before
\* its first ones, and it has another link by now.
SendsTo(s, c) ==
    /\ sent' = [sent EXCEPT ![s] = [of |-> <<c, Reads(c)>>,
                                   late |-> sent[s] # NoPush /\ c # link[s]]]
    /\ section' = [section EXCEPT ![Shared] = IF c = Shared THEN LoadShared ELSE @]

InitialSettings(s) ==
    /\ phase[s] = "reading" /\ phase' = [phase EXCEPT ![s] = "settled"]
    /\ SendsTo(s, taken[s])
    /\ UNCHANGED <<diskVars, table, watch, pending, work, todo, link, taken>>

SessionEnds(s) ==
    /\ Idle /\ phase[s] = "settled" /\ phase' = [phase EXCEPT ![s] = "none"]
    /\ link' = [link EXCEPT ![s] = Shared] /\ sent' = [sent EXCEPT ![s] = NoPush]
    /\ taken' = [taken EXCEPT ![s] = Shared]
    /\ UNCHANGED <<diskVars, table, section, watch, pending, work, todo>>

\* apply_pending_config_to_sessions: the flag is taken first, and the sessions that are
\* ready are copied.
SweepTakes ==
    /\ Idle /\ pending /\ pending' = FALSE
    /\ todo' = {s \in CfgSession : Ready(s)}
    /\ UNCHANGED <<diskVars, table, section, watch, work, linkVars>>

SweepSendsTo(s) ==
    /\ s \in todo /\ todo' = todo \ {s} /\ SendsTo(s, link[s])
    /\ UNCHANGED <<diskVars, table, watch, pending, work, link, phase, taken>>

----------------------------------------------------------------------------

Requests ==
    \/ \E c \in Config : Create(c) \/ SetSetting(c) \/ Archive(c)
    \/ \E c \in Config, n \in CfgSerial : AddClaim(c, n) \/ RemoveClaim(c, n)
    \/ \E c, d \in Config : Copy(c, d) \/ RenameConfig(c, d)
    \/ \E s \in CfgSession, c \in Config \cup {Shared} : LinkDevice(s, c)
    \/ Lists
Loop == Fills \/ Reloads \/ Relink \/ SweepTakes \/ \E s \in CfgSession : SweepSendsTo(s)
Watcher == Wakes \/ ConfigChanged \/ Invalidates \/ ApplyChange
CfgWorker(s) == AutoLinks(s) \/ TakesLink(s) \/ InitialSettings(s)

ConfigNext ==
    \/ Requests \/ Loop \/ Watcher \/ EditShared
    \/ \E s \in CfgSession : Starts(s) \/ CfgWorker(s) \/ SessionEnds(s)

ConfigTypeOK ==
    /\ \A c \in Config : file[c].claims \subseteq CfgSerial /\ file[c].ver \in -1..MaxEdits
    /\ \A c \in Config : table[c] = {"none"} \/ table[c] \subseteq CfgSerial
    /\ section \in [Config \cup {Shared} -> -1..MaxEdits]
    /\ shared \in 0..MaxEdits /\ stamp \in 0..shared
    /\ told \in BOOLEAN /\ pending \in BOOLEAN
    /\ watch \in {"waits", "looks", "applies", "reloads"}
    /\ work.at \in {"idle", "filling", "written", "relink"}
    /\ todo \subseteq CfgSession
    /\ link \in [CfgSession -> Config \cup {Shared}] /\ taken \in [CfgSession -> Config \cup {Shared}]

\* One config claims a serial, a session is linked to a config that is there, and between
\* requests what is loaded is what the files say: whichever requests came before, and
\* whatever the watcher read while one of them was writing.
ConfigsHold ==
    Idle =>
      /\ \A c, d \in Config : c # d => file[c].claims \cap file[d].claims = {}
      /\ \A s \in CfgSession : link[s] # Shared => There(link[s])
      /\ \A c \in Config : table[c] = LoadOne(c) /\ section[c] = file[c].ver

\* A change of the file a ready session reads, of either kind, reaches it as the last
\* settings it is sent: it does not stay with those its file no longer has.  Except where
\* they came late: the session's first settings, of the link its worker had read, sent
\* after a sweep's of its new one.
SettingsReach ==
    \A s \in CfgSession :
        []<>(~Ready(s) \/ ~Idle \/ sent[s].of = Current(s) \/ sent[s].late)
=============================================================================
