---------------------------- MODULE SessionPlugin ----------------------------
(***************************************************************************)
(* A session plugin (codex-runtime, claude-code-runtime): one process with *)
(* a watcher thread that turns new lines of session files into events, and *)
(* a provider that answers snapshot and detail requests from an index of   *)
(* the same files.  The two share a repository: index and cursors.         *)
(*                                                                         *)
(* The tool appends to its files while both read them, in pieces that need *)
(* not end at a line's end, and may replace a file.  Lengths and offsets   *)
(* count half lines: an odd length is a file whose last line is being      *)
(* written.  What lies in the order of 60 s (ACTIVE_FILE_TTL) is the age   *)
(* of a file; a pass over the files is taken to be shorter than that.      *)
(***************************************************************************)
EXTENDS Integers, FiniteSets, SessionLines

CONSTANTS
    Files,       \* paths of session files
    Scripts,     \* for each tool, the contents that may replace a file
    Sessions,    \* session ids the contents name
    Limit,       \* files a discovery looks at (DISCOVERY_FILE_LIMIT)
    MaxLines,    \* bound: lines of a content
    MaxRewrites, \* bound: files replaced
    Starts       \* where a behaviour may start: the plugin, whether its watcher
                 \* could be started, content and length of each file, and the
                 \* bounds on rewrites, switches, failed reports and requests

Tools == {"codex", "claude"}
Bounds == {"rewrites", "toggles", "faults", "requests"}

\* A content is a sequence of lines.
IsContent(c) == c \in Seq(ToSet(c)) /\ Len(c) <= MaxLines

ASSUME PluginFilesAssumption ==
    /\ Limit \in Nat \ {0} /\ MaxLines \in Nat /\ MaxRewrites \in Nat
    /\ None \notin Sessions
    /\ \A t \in Tools : \A c \in Scripts[t] : IsContent(c)
    /\ \A s \in Starts : /\ s.tool \in Tools /\ s.watches \in BOOLEAN
                         /\ \A f \in Files : /\ IsContent(s.script[f])
                                              /\ s.len[f] \in 0..(2 * Len(s.script[f]))
                         /\ s.budget \in [Bounds -> Nat]
                         /\ s.budget.rewrites <= MaxRewrites

VARIABLES
    tool,        \* the plugin this is
    files,       \* content, length and inode of each file, and how often it was replaced
    age,         \* time since each file was modified or seen
    order,       \* the files, last modified first
    notified,    \* events of the operating system not yet received
    listener,    \* the listener switch of the tool in config.json
    watcher,     \* the watcher thread
    active,      \* active_files
    cursors,     \* event_cursors
    taken,       \* history: since where a file is read, and what was made of it
    received,    \* history: lines of the present files whose events reached the API
    index,       \* the provider's index, by session
    provider,    \* the provider's current request
    budget       \* what is left of the bounds

vars == <<tool, files, age, order, notified, listener, watcher, active, cursors, taken,
          received, index, provider, budget>>
disk == <<files, age, order, notified>>
repository == <<cursors, index>>
ghosts == <<taken, received>>

Ages == <<"new", "passed once", "passed twice", "old">>
NoCursor == [offset |-> -1]
NoEntry == [file |-> None]
NoPlan == [start |-> -1]
Watching(pc) == [pc |-> pc, initialized |-> TRUE, todo |-> {}, at |-> None,
                 plan |-> NoPlan, events |-> <<>>, after |-> "top"]
Idle == [pc |-> "idle", for |-> None, latest |-> FALSE, asked |-> <<>>, signs |-> <<>>, next |-> <<>>,
         retried |-> FALSE, answer |-> NoEntry, page |-> {}, got |-> {}]

Content(f) == files[f].script
Complete(f) == files[f].len \div 2
Even(n) == n % 2 = 0
\* Modification time and size: every write changes them.
Modification(f) == <<files[f].gen, files[f].len>>
Greater(a, b) == IF a > b THEN a ELSE b

(***************************************************************************)
(* The tool writes (external).  The operating system may report a change   *)
(* of a file, of its directory, or nothing.                                *)
(***************************************************************************)
Touch(f) ==
    /\ order' = <<f>> \o SelectSeq(order, LAMBDA g : g # f)
    /\ IF watcher.pc = "ended" THEN UNCHANGED <<age, notified>>
       ELSE /\ age' = [age EXCEPT ![f] = 1]
            /\ \E n \in {{}, {f}} \cup (IF tool = "codex" THEN {{"dir"}} ELSE {}) :
                  notified' = notified \cup n

AppendHalfLine(f) ==
    /\ files[f].len < 2 * Len(Content(f))
    /\ files' = [files EXCEPT ![f].len = @ + 1]
    /\ Touch(f)
    /\ UNCHANGED <<tool, listener, watcher, active, repository, ghosts, provider, budget>>

\* A new file may get the inode number of the one it replaces.
Rewrite(f) ==
    /\ budget.rewrites > 0
    /\ \E s \in Scripts[tool], ino \in {files[f].ino, files[f].ino + 1} :
          files' = [files EXCEPT ![f] = [script |-> s, len |-> 0, ino |-> ino,
                                         gen |-> @.gen + 1]]
    /\ Touch(f)
    /\ received' = {r \in received : r[1] # f}
    /\ budget' = [budget EXCEPT !.rewrites = @ - 1]
    /\ UNCHANGED <<tool, listener, watcher, active, repository, taken, provider>>

\* Two passes over the active files fit in 60 s.
GrowsOld(f) ==
    /\ age[f] = 3
    /\ age' = [age EXCEPT ![f] = 4]
    /\ UNCHANGED <<tool, files, order, notified, listener, watcher, active, repository,
                   ghosts, provider, budget>>

SwitchListener ==
    /\ tool = "codex" /\ budget.toggles > 0
    /\ listener' = ~listener
    /\ budget' = [budget EXCEPT !.toggles = @ - 1]
    /\ UNCHANGED <<tool, disk, watcher, active, repository, ghosts, provider>>

\* From here on nothing goes wrong any more.
Settle ==
    /\ listener
    /\ budget.rewrites + budget.toggles + budget.faults > 0
    /\ budget' = [budget EXCEPT !.rewrites = 0, !.toggles = 0, !.faults = 0]
    /\ UNCHANGED <<tool, disk, listener, watcher, active, repository, ghosts, provider>>

(***************************************************************************)
(* The watcher's loop (run_runtime).                                       *)
(***************************************************************************)
clear_runtime_indexes ==
    /\ cursors' = [f \in Files |-> NoCursor]
    /\ index' = [s \in Sessions |-> NoEntry]

Goto(pc) == watcher' = [watcher EXCEPT !.pc = pc]

\* Files to scan, and where the loop goes on afterwards.
ScanAll(todo, after) ==
    watcher' = [watcher EXCEPT !.pc = IF todo = {} THEN after ELSE "scan",
                               !.todo = todo, !.after = after]

ScannedOne ==
    LET left == watcher.todo \ {watcher.at}
    IN watcher' = [watcher EXCEPT !.pc = IF left = {} THEN watcher.after ELSE "scan",
                                  !.todo = left, !.at = None, !.plan = NoPlan,
                                  !.events = <<>>]

StopListening ==
    /\ watcher.pc = "top" /\ ~listener
    /\ watcher' = [watcher EXCEPT !.initialized = FALSE]
    /\ notified' = {}
    /\ IF watcher.initialized
       THEN active' = {} /\ clear_runtime_indexes
       ELSE UNCHANGED <<active, repository>>
    /\ UNCHANGED <<tool, files, age, order, listener, ghosts, provider, budget>>

Listen ==
    /\ watcher.pc = "top" /\ listener
    /\ watcher' = [watcher EXCEPT !.pc = "recv", !.initialized = TRUE]
    /\ UNCHANGED <<tool, disk, listener, active, repository, ghosts, provider, budget>>

\* recv_timeout, collect_event_paths, and the file half of flush_pending.
flush_pending_file(f) ==
    /\ watcher.pc = "recv" /\ f \in notified
    /\ notified' = notified \ {f}
    /\ active' = active \cup {f}
    /\ age' = [age EXCEPT ![f] = 1]
    /\ ScanAll({f}, "discover")
    /\ UNCHANGED <<tool, files, order, listener, repository, ghosts, provider, budget>>

ReceivesNothing ==
    /\ watcher.pc = "recv" /\ notified = {}
    /\ Goto("discover")
    /\ UNCHANGED <<tool, disk, listener, active, repository, ghosts, provider, budget>>

\* A file that enters the watch by discovery is read from its end on.
prime_event_cursor_to_end(f) ==
    [offset |-> files[f].len, len |-> files[f].len, ino |-> files[f].ino,
     parser |-> primed_parser(SubSeq(Content(f), 1, Complete(f)))]

add_discovered_active_files(found) ==
    /\ active' = active \cup found
    /\ age' = [f \in Files |-> IF f \in found THEN 1 ELSE age[f]]
    /\ cursors' = [f \in Files |-> IF f \in found THEN prime_event_cursor_to_end(f) ELSE cursors[f]]
    /\ taken' = [f \in Files |->
           IF f \in found
           THEN [gen |-> files[f].gen, from |-> files[f].len, handed |-> <<>>,
                 parser |-> primed_parser(SubSeq(Content(f), 1, Complete(f)))]
           ELSE taken[f]]

recent_jsonl_files == {order[i] : i \in 1..(IF Limit < Len(order) THEN Limit ELSE Len(order))}

\* The directory half of flush_pending; the Claude watcher ignores such events.
flush_pending_dir ==
    /\ watcher.pc = "recv" /\ "dir" \in notified
    /\ notified' = notified \ {"dir"}
    /\ IF tool = "codex"
       THEN add_discovered_active_files({f \in recent_jsonl_files \ active : age[f] # 4})
       ELSE UNCHANGED <<active, age, cursors, taken>>
    /\ Goto("discover")
    /\ UNCHANGED <<tool, files, order, listener, received, index, provider, budget>>

\* Mutant: discovery takes a watched file over once more.
discover_watched_files_again ==
    /\ watcher.pc = "discover" /\ tool = "codex"
    /\ add_discovered_active_files(recent_jsonl_files)
    /\ Goto("active")
    /\ UNCHANGED <<tool, files, order, notified, listener, received, index, provider, budget>>

discover_recent_files ==
    /\ watcher.pc = "discover" /\ tool = "codex"
    /\ add_discovered_active_files(recent_jsonl_files \ active)
    /\ Goto("active")
    /\ UNCHANGED <<tool, files, order, notified, listener, received, index, provider, budget>>

claude_discover_recent_files ==
    /\ watcher.pc = "discover" /\ tool = "claude"
    /\ LET found == {f \in recent_jsonl_files : age[f] # 4}
       IN active' = active \cup found /\ ScanAll(found, "active")
    /\ UNCHANGED <<tool, disk, listener, repository, ghosts, provider, budget>>

NotDue(pc, next) ==
    /\ watcher.pc = pc
    /\ Goto(next)
    /\ UNCHANGED <<tool, disk, listener, active, repository, ghosts, provider, budget>>

scan_active_files ==
    /\ watcher.pc = "active"
    /\ active' = {f \in active : age[f] # 4}
    /\ age' = [f \in Files |-> IF age[f] < 3 THEN age[f] + 1 ELSE age[f]]
    /\ ScanAll(active', "top")
    /\ UNCHANGED <<tool, files, order, notified, listener, repository, ghosts, provider, budget>>

(***************************************************************************)
(* scan_file: take the cursor and the file's length; read and parse what   *)
(* is new and store the cursor; report the events.                         *)
(***************************************************************************)
Replaced(f) == tool = "codex" /\ cursors[f].ino # files[f].ino
Truncated(f) == files[f].len < cursors[f].len \/ cursors[f].offset > files[f].len

\* Mutant: every scan starts with a new parser.
scan_plan_forgets_parser(f) ==
    LET reset == cursors[f] = NoCursor \/ Replaced(f) \/ Truncated(f)
    IN [start |-> IF reset THEN 0 ELSE cursors[f].offset,
        len |-> files[f].len, ino |-> files[f].ino, reset |-> reset, parser |-> Parser]

event_scan_plan(f) ==
    LET reset == cursors[f] = NoCursor \/ Replaced(f) \/ Truncated(f)
    IN [start |-> IF reset THEN 0 ELSE cursors[f].offset,
        len |-> files[f].len, ino |-> files[f].ino, reset |-> reset,
        parser |-> IF reset THEN Parser ELSE cursors[f].parser]

\* From the middle of a line, its rest does not parse.  A last line without
\* its end is left for the next scan.
read_new_event_lines(f, start) ==
    LET rest == SubSeq(Content(f), (start + 1) \div 2 + 1, Complete(f))
        torn == ~Even(start) /\ files[f].len > start
    IN [lines |-> IF torn THEN <<Garbage>> \o rest ELSE rest,
        next_offset |-> Greater(start, 2 * Complete(f))]

PlanScan(f) ==
    /\ watcher.pc = "scan" /\ f \in watcher.todo
    /\ watcher' = [watcher EXCEPT !.pc = "read", !.at = f, !.plan = event_scan_plan(f)]
    /\ UNCHANGED <<tool, disk, listener, active, repository, ghosts, provider, budget>>

\* An offset of one content means nothing in another: it may fall within a line.
scan_file ==
    /\ watcher.pc = "read"
    /\ LET f == watcher.at
           plan == watcher.plan
           read == read_new_event_lines(f, plan.start)
           before == IF plan.reset \/ taken[f].gen # files[f].gen
                     THEN [gen |-> files[f].gen, from |-> plan.start,
                           handed |-> <<>>, parser |-> plan.parser]
                     ELSE taken[f]
       IN \E misplaced \in {FALSE, plan.start > 0 /\ taken[f].gen # files[f].gen} :
          LET scan == parse_lines(tool, plan.parser, plan.start \div 2,
                          IF misplaced THEN <<Garbage>> ELSE read.lines)
          IN IF ~scan.ok
             THEN ScannedOne /\ UNCHANGED <<cursors, taken>>
             ELSE /\ cursors' = [cursors EXCEPT ![f] =
                         [offset |-> read.next_offset, len |-> plan.len, ino |-> plan.ino,
                          parser |-> scan.parser]]
                  /\ taken' = [taken EXCEPT ![f] =
                         [before EXCEPT !.handed = @ \o scan.events]]
                  /\ IF scan.events = <<>> THEN ScannedOne
                     ELSE watcher' = [watcher EXCEPT !.pc = "post", !.events =
                              [i \in DOMAIN scan.events |-> <<f, before.gen, scan.events[i].n>>]]
    /\ UNCHANGED <<tool, disk, listener, active, received, index, provider, budget>>

append_events ==
    /\ watcher.pc = "post"
    /\ received' = received \cup ToSet(watcher.events)
    /\ ScannedOne
    /\ UNCHANGED <<tool, disk, listener, active, repository, taken, provider, budget>>

\* The events are gone: the cursor is behind them.
AppendFails ==
    /\ watcher.pc = "post" /\ budget.faults > 0
    /\ budget' = [budget EXCEPT !.faults = @ - 1]
    /\ ScannedOne
    /\ UNCHANGED <<tool, disk, listener, active, repository, ghosts, provider>>

(***************************************************************************)
(* The provider.  Its mutex lets one request or one refresh of the         *)
(* notifier in at a time; files and repository change in between its steps.*)
(* An entry of the index names the lines it found (the content and how     *)
(* many lines of it) and the modification the file had before.             *)
(***************************************************************************)
SessionIn(lines) ==
    LET naming == SelectSeq(lines, LAMBDA l : l.kind \in {"session_meta", "user"})
    IN IF naming = <<>> THEN None ELSE naming[1].id

scan_session_file_index(f, sign) ==
    [file |-> f, script |-> Content(f), gen |-> files[f].gen, lines |-> Complete(f), sign |-> sign]

SessionOf(entry) == SessionIn(SubSeq(entry.script, 1, entry.lines))

At(pc) == provider' = [provider EXCEPT !.pc = pc]
ProviderRests == provider' = Idle

\* What a request finds on disk when it comes in (history).
Now == [f \in Files |-> [gen |-> files[f].gen, lines |-> Complete(f)]]

\* A disabled provider clears the repository, cursors of the watcher included.
RefuseDisabled ==
    /\ clear_runtime_indexes
    /\ ProviderRests

session_snapshot_response ==
    /\ provider.pc = "idle" /\ budget.requests > 0
    /\ budget' = [budget EXCEPT !.requests = @ - 1]
    /\ IF listener THEN At("sign") /\ UNCHANGED repository ELSE RefuseDisabled
    /\ UNCHANGED <<tool, disk, listener, watcher, active, ghosts>>

\* The notifier refreshes without looking at the switch.
notify_snapshot_update_once ==
    /\ provider.pc = "idle" /\ tool = "codex" /\ budget.requests > 0
    /\ budget' = [budget EXCEPT !.requests = @ - 1]
    /\ At("sign")
    /\ UNCHANGED <<tool, disk, listener, watcher, active, repository, ghosts>>

session_detail_response(s, latest) ==
    /\ provider.pc = "idle" /\ budget.requests > 0
    /\ budget' = [budget EXCEPT !.requests = @ - 1]
    /\ IF listener
       THEN /\ provider' = [Idle EXCEPT !.pc = IF index[s] = NoEntry THEN "sign" ELSE "check",
                                        !.for = s, !.asked = Now, !.latest = latest]
            /\ UNCHANGED repository
       ELSE RefuseDisabled
    /\ UNCHANGED <<tool, disk, listener, watcher, active, ghosts>>

\* snapshot_context, and the signatures of the recent files.  Codex keeps an
\* entry whose file did not change.
snapshot_context ==
    /\ provider.pc = "sign"
    /\ LET kept(f) == {index[s] : s \in {t \in Sessions : /\ index[t].file = f
                                                          /\ index[t].sign = Modification(f)}}
       IN provider' = [provider EXCEPT !.pc = "parse",
              !.signs = [f \in Files |-> Modification(f)],
              !.next = [f \in Files |->
                  IF tool = "codex" /\ kept(f) # {} THEN CHOOSE e \in kept(f) : TRUE ELSE NoEntry]]
    /\ UNCHANGED <<tool, disk, listener, watcher, active, repository, ghosts, budget>>

build_snapshot_refresh ==
    /\ provider.pc = "parse"
    /\ provider' = [provider EXCEPT !.pc = "apply", !.next =
           [f \in Files |-> IF @[f] # NoEntry THEN @[f]
                            ELSE scan_session_file_index(f, provider.signs[f])]]
    /\ UNCHANGED <<tool, disk, listener, watcher, active, repository, ghosts, budget>>

\* Two files may claim one session: one of them stays.
apply_snapshot_refresh ==
    /\ provider.pc = "apply"
    /\ LET claims(s) == {f \in Files : SessionOf(provider.next[f]) = s}
       IN /\ index' = [s \in Sessions |-> IF claims(s) = {} THEN NoEntry
                                          ELSE provider.next[CHOOSE f \in claims(s) : TRUE]]
          /\ IF provider.for # None /\ claims(provider.for) # {}
             THEN provider' = [provider EXCEPT !.pc = "check", !.signs = <<>>, !.next = <<>>]
             ELSE ProviderRests
    /\ UNCHANGED <<tool, disk, listener, watcher, active, cursors, ghosts, budget>>

\* session_detail: the latest page looks at the file's metadata first.
session_detail ==
    /\ provider.pc = "check"
    /\ LET entry == index[provider.for]
       IN IF entry = NoEntry THEN ProviderRests
          ELSE IF tool = "codex" /\ provider.latest /\ entry.sign # Modification(entry.file)
          THEN provider' = [provider EXCEPT !.pc = "resign", !.answer = entry]
          ELSE provider' = [provider EXCEPT !.pc = "page", !.answer = entry]
    /\ UNCHANGED <<tool, disk, listener, watcher, active, repository, ghosts, budget>>

rebuild_session_index_from_file ==
    /\ provider.pc = "resign"
    /\ provider' = [provider EXCEPT !.pc = "reparse",
                                    !.answer.sign = Modification(provider.answer.file)]
    /\ UNCHANGED <<tool, disk, listener, watcher, active, repository, ghosts, budget>>

\* The file may belong to another session by now.
replace_session_index ==
    /\ provider.pc = "reparse"
    /\ LET entry == scan_session_file_index(provider.answer.file, provider.answer.sign)
       IN /\ index' = [s \in Sessions |-> IF s = SessionOf(entry) THEN entry
                                          ELSE IF s = provider.for THEN NoEntry ELSE index[s]]
          /\ IF SessionOf(entry) = provider.for
             THEN provider' = [provider EXCEPT !.pc = "lookup", !.answer = NoEntry]
             ELSE ProviderRests
    /\ UNCHANGED <<tool, disk, listener, watcher, active, cursors, ghosts, budget>>

session_index ==
    /\ provider.pc = "lookup"
    /\ IF index[provider.for] = NoEntry THEN ProviderRests
       ELSE provider' = [provider EXCEPT !.pc = "page", !.answer = index[provider.for]]
    /\ UNCHANGED <<tool, disk, listener, watcher, active, repository, ghosts, budget>>

\* Mutant: what is read is not compared.
HoldsUnchecked(entry, n) == n <= Complete(entry.file)

\* A line is read where the index says, from the file opened anew, and compared
\* with what was there.  Lines are taken to be equally long.
Holds(entry, n) ==
    n <= Complete(entry.file) /\ Content(entry.file)[n] = entry.script[n]

\* Codex reads the line again that names the session.
verify_session_identity(entry) ==
    tool = "codex" =>
        \E n \in 1..entry.lines : /\ entry.script[n] = Line("session_meta", SessionOf(entry))
                                 /\ Holds(entry, n)

\* A Codex index that does not hold is rebuilt once.
Stale ==
    IF tool = "codex" /\ ~provider.retried
    THEN provider' = [provider EXCEPT !.pc = "resign", !.retried = TRUE]
    ELSE ProviderRests

\* Which lines are messages and how many make a page is left open.
detail_from_index ==
    /\ provider.pc = "page"
    /\ IF verify_session_identity(provider.answer)
       THEN \E page \in SUBSET (1..provider.answer.lines) :
               provider' = [provider EXCEPT !.pc = "lines", !.page = page, !.got = {}]
       ELSE Stale
    /\ UNCHANGED <<tool, disk, listener, watcher, active, repository, ghosts, budget>>

\* The last line first.
read_messages_by_range ==
    /\ provider.pc = "lines"
    /\ LET entry == provider.answer
       IN \/ provider.page = {} /\ At("answered")
          \/ \E n \in provider.page :
                /\ \A m \in provider.page : m <= n
                /\ IF Holds(entry, n)
                   THEN provider' = [provider EXCEPT !.page = @ \ {n},
                                         !.got = @ \cup {<<n, Content(entry.file)[n]>>}]
                   ELSE Stale
    /\ UNCHANGED <<tool, disk, listener, watcher, active, repository, ghosts, budget>>

write_provider_message ==
    /\ provider.pc = "answered"
    /\ ProviderRests
    /\ UNCHANGED <<tool, disk, listener, watcher, active, repository, ghosts, budget>>

(***************************************************************************)
(* Specification.                                                          *)
(***************************************************************************)
Init ==
    \E start \in Starts :
        /\ tool = start.tool
        /\ files = [f \in Files |-> [script |-> start.script[f], len |-> start.len[f],
                                    ino |-> 0, gen |-> 0]]
        /\ age = [f \in Files |-> 4]
        /\ order \in SetToSeqs(Files)
        /\ notified = {}
        /\ listener = TRUE
        /\ watcher = Watching(IF start.watches THEN "top" ELSE "ended")
        /\ active = {}
        /\ cursors = [f \in Files |-> NoCursor]
        /\ taken = [f \in Files |-> [gen |-> -1, from |-> 0, handed |-> <<>>, parser |-> Parser]]
        /\ received = {}
        /\ index = [s \in Sessions |-> NoEntry]
        /\ provider = Idle
        /\ budget = start.budget

ToolStep == \E f \in Files : AppendHalfLine(f) \/ Rewrite(f) \/ GrowsOld(f)

WatcherStep ==
    \/ StopListening \/ Listen \/ ReceivesNothing \/ flush_pending_dir
    \/ \E f \in Files : flush_pending_file(f) \/ PlanScan(f)
    \/ discover_recent_files \/ claude_discover_recent_files \/ NotDue("discover", "active")
    \/ scan_active_files \/ NotDue("active", "top")
    \/ scan_file \/ append_events \/ AppendFails

ProviderStep ==
    \/ session_snapshot_response \/ notify_snapshot_update_once
    \/ \E s \in Sessions, latest \in BOOLEAN : session_detail_response(s, latest)
    \/ snapshot_context \/ build_snapshot_refresh \/ apply_snapshot_refresh
    \/ session_detail \/ rebuild_session_index_from_file \/ replace_session_index
    \/ session_index \/ detail_from_index \/ read_messages_by_range \/ write_provider_message

Next == ToolStep \/ SwitchListener \/ Settle \/ WatcherStep \/ ProviderStep

\* The loop goes on, and what is on a timer comes due: the intervals of the
\* scans are shorter than anything that keeps the loop busy.
Fairness == WF_vars(WatcherStep) /\ SF_vars(scan_active_files)

Spec == Init /\ [][Next]_vars
FairSpec == Spec /\ Fairness

(***************************************************************************)
(* Properties.                                                             *)
(***************************************************************************)
\* What the watcher made of a file since it took it over is what one parse of
\* those lines makes of them: no line skipped or parsed twice and no parser
\* state lost, however the writes and the scans were cut (scan_file).
ScansAreOneParse ==
    \A f \in Files :
        cursors[f] # NoCursor /\ taken[f].gen = files[f].gen =>
            LET since == taken[f]
                lines == SubSeq(Content(f), since.from \div 2 + 1, cursors[f].offset \div 2)
                parse == parse_lines(tool, since.parser, since.from \div 2, lines)
            IN parse.ok /\ parse.events = since.handed

\* Every line of a detail answer is the line that the session it was asked for
\* has there, although the file may be replaced at any moment, also between the
\* check of its identity and the reading of any line (verify_session_identity,
\* read_indexed_line); and the latest page of a Codex session is taken from an
\* index of every line that was complete when the request came in
\* (session_file_metadata_changed, rebuild_session_index_from_file).
DetailAnswersRequest ==
    provider.pc = "answered" =>
        LET a == provider.answer
            then == provider.asked[a.file]
        IN /\ SessionOf(a) = provider.for
           /\ \A read \in provider.got : /\ read[1] \in 1..a.lines
                                         /\ read[2] = a.script[read[1]]
           /\ provider.latest /\ tool = "codex" =>
                 a.gen > then.gen \/ (a.gen = then.gen /\ a.lines >= then.lines)

\* Once nothing goes wrong any more, a complete line of a watched file is
\* reported, when the cursor stands at a line's end and no line behind it fails
\* to parse: such a line takes along every line read in the same scan, those
\* before it too (scan_active_files, scan_file, ACTIVE_FILE_TTL).
Reporting == {"task_started", "plan", "user", "tool_use", "end_turn"}
Quiet == listener /\ budget.rewrites = 0 /\ budget.toggles = 0 /\ budget.faults = 0
Ahead(f, i) ==
    /\ f \in active /\ cursors[f] # NoCursor /\ taken[f].gen = files[f].gen
    /\ ~Replaced(f) /\ ~Truncated(f)
    /\ Even(cursors[f].offset) /\ cursors[f].offset <= 2 * (i - 1) /\ i <= Complete(f)
    /\ Content(f)[i].kind \in Reporting
    /\ \A j \in (cursors[f].offset \div 2 + 1)..Len(Content(f)) : Content(f)[j].kind # "bad"
WatchedLineIsReported ==
    \A f \in Files, i \in 1..MaxLines :
        Quiet /\ Ahead(f, i) ~> <<f, files[f].gen, i>> \in received
=============================================================================
