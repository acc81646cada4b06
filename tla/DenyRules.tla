------------------------------ MODULE DenyRules ------------------------------
(***************************************************************************)
(* The deny rules of ext/permissions: what a session loads as it starts,   *)
(* which tool calls a rule holds back, and which lines of a grep's output  *)
(* are left out.                                                           *)
(*                                                                         *)
(* A rule is a verb and the subjects its glob names; a subject is a path   *)
(* as it can be spelled, a program, a search query or a subagent.  Linked  *)
(* paths are other names of Target (realpathIfSymlink), and so are those   *)
(* Relative to the working directory (resolveToCwd).  A bash               *)
(* command is its segments, each a program, the wrappers it is run through *)
(* (`sudo`, `env X=1`, `sh -c`) and the words it names, by how they are    *)
(* used.                                                                   *)
(***************************************************************************)
EXTENDS Naturals, FiniteSets

CONSTANTS Path, Relative, Linked, Target, Program, Query,
          None,
          RuleVerb,   \* the verbs the settings' rules have
          Wraps,      \* through how many wrappers a program is run
          EditBound   \* how often the settings change

NestLimit == 3 \* bashRuleSubjects: `depth > 3`

VARIABLES global, project, \* each scope's settings: readable, and their rules
          trusted,         \* pi trusts the project
          deny,            \* the rules the session loaded
          call,            \* the tool call that runs
          blocked,         \* the call last held back
          shown,           \* the files whose lines a grep's result still has
          edits

vars == <<global, project, trusted, deny, call, blocked, shown, edits>>

Resolved(p) == IF p \in Relative THEN Target ELSE p
RealPath(p) == IF p \in Linked THEN Target ELSE Resolved(p)

PathVerbs == {"read", "write", "edit", "grep"}
Subjects(v) == CASE v \in PathVerbs -> Path
                 [] v = "bash" -> Program
                 [] v = "websearch" -> Query
Rules == UNION {[verb : {v}, names : {{x} : x \in Subjects(v)}] : v \in RuleVerb}

FileTools == {"read", "write", "edit", "grep"}
Uses == {"plain", "append", "truncate"}
Segments == [program : Program, wraps : Wraps, use : Uses, word : Path]
Calls == [tool : FileTools, path : Path]
         \cup [tool : {"websearch"}, queries : (SUBSET Query) \ {{}}]
         \* A monitor's command and powershell's are judged as bash's (governedToolCall).
         \cup [tool : {"bash"}, segments : {{s} : s \in Segments}, large : BOOLEAN]

(***************************************************************************)
(* rules.ts                                                                *)
(***************************************************************************)
\* ruleVerbCovers: an Edit rule covers every file-editing tool, a Read rule every file-reading one.
Covers(verb, tool) == verb = tool \/ <<verb, tool>> \in {<<"edit", "write">>, <<"read", "grep">>}

(* A mutant: a rule is matched as it is spelled. *)
AsSpelled(rule) == rule.names
\* pathRulePatterns: a rule names its path, that under the working directory, and what it links to.
Patterns(rule) == rule.names \cup UNION {{Resolved(p), RealPath(p)} : p \in rule.names}
Candidates(p) == {Resolved(p), RealPath(p)}
NamesPath(rule, p) == Patterns(rule) \cap Candidates(p) # {}

\* bashRuleSubjects: the programs a command's respellings name.  A wrapper nests to a depth of NestLimit.
RuleSubjects(c) == {s.program : s \in {s \in c.segments : s.wraps <= NestLimit + 1}}

\* BASH_USES_GUARDED
UsesGuarded(verb) == CASE verb = "write" -> {"plain", "truncate"}
                       [] verb = "edit"  -> Uses
                       [] OTHER          -> {"plain"}

\* A command too large to check counts as a match of every rule that would have to see it.
Matches(rule, c) ==
    CASE c.tool = "bash" /\ rule.verb \in PathVerbs ->
             \/ c.large
             \/ \E s \in c.segments : s.use \in UsesGuarded(rule.verb) /\ NamesPath(rule, s.word)
      [] c.tool = "bash" ->
             /\ Covers(rule.verb, c.tool)
             /\ c.large \/ rule.names \cap RuleSubjects(c) # {}
      [] c.tool \in FileTools -> Covers(rule.verb, c.tool) /\ NamesPath(rule, c.path)
      \* A batch is judged item by item.
      [] c.tool = "websearch" -> Covers(rule.verb, c.tool) /\ rule.names \cap c.queries # {}

Denied(c) == \E rule \in deny : Matches(rule, c)

\* grepOutputWithoutDenied: a line goes when a grep of its file would be denied.
WithoutDenied(found) == {p \in found : ~Denied([tool |-> "grep", path |-> p])}

(***************************************************************************)
(* The session                                                             *)
(***************************************************************************)
Settings == [readable : BOOLEAN, rules : {{}} \cup {{r} : r \in Rules}]
InEffect(s) == IF s.readable THEN s.rules ELSE {}

Init == /\ global \in Settings /\ project \in Settings /\ trusted \in BOOLEAN
        /\ deny = {} /\ call = None /\ blocked = None /\ shown = {} /\ edits = 0

\* Both scopes' rules, combined; an untrusted project's settings are empty.
SessionStarts ==
    /\ call = None
    /\ deny' = InEffect(global) \cup (IF trusted THEN InEffect(project) ELSE {})
    /\ blocked' = None /\ shown' = {}
    /\ UNCHANGED <<global, project, trusted, call, edits>>
SettingsChange ==
    /\ edits < EditBound /\ edits' = edits + 1
    /\ \/ global' \in Settings /\ UNCHANGED <<project, trusted>>
       \/ project' \in Settings /\ UNCHANGED <<global, trusted>>
       \/ trusted' \in BOOLEAN /\ UNCHANGED <<global, project>>
    /\ UNCHANGED <<deny, call, blocked, shown>>

ToolCall(c) ==
    /\ call = None /\ shown' = {}
    /\ IF Denied(c) THEN blocked' = c /\ UNCHANGED call ELSE call' = c /\ blocked' = None
    /\ UNCHANGED <<global, project, trusted, deny, edits>>
\* `found`: the files a folder's grep has lines from; every other result is passed on.
ToolResult(found) ==
    /\ call # None /\ call' = None
    /\ found = {} \/ call.tool = "grep"
    /\ shown' = WithoutDenied(found)
    /\ UNCHANGED <<global, project, trusted, deny, blocked, edits>>

Next == \/ SessionStarts \/ SettingsChange
        \/ \E c \in Calls : ToolCall(c)
        \/ \E found \in SUBSET Path : ToolResult(found)

Spec == Init /\ [][Next]_vars

(***************************************************************************)
(* Properties                                                              *)
(***************************************************************************)
\* What a call does, or may do, to what a path leads to.
Effects(c) ==
    CASE c.tool = "bash" ->
             UNION {CASE s.use = "plain"    -> {"read", "overwrite", "change"} \X {RealPath(s.word)}
                      [] s.use = "truncate" -> {<<"overwrite", RealPath(s.word)>>}
                      [] s.use = "append"   -> {<<"change", RealPath(s.word)>>} : s \in c.segments}
             \cup {<<"run", s.program>> : s \in {t \in c.segments : t.wraps <= NestLimit + 1}}
      [] c.tool = "write" -> {<<"overwrite", RealPath(c.path)>>}
      [] c.tool = "edit"  -> {<<"change", RealPath(c.path)>>}
      [] c.tool \in {"read", "grep"} -> {<<"read", RealPath(c.path)>>}
      [] c.tool = "websearch" -> {"search"} \X c.queries
\* What a rule is there to stop.
Stops(rule) ==
    (CASE rule.verb = "read"  -> {"read"}
       [] rule.verb = "write" -> {"overwrite"}
       [] rule.verb = "edit"  -> {"overwrite", "change"}
       [] rule.verb = "websearch" -> {"search"}
       [] rule.verb = "bash" -> {"run"}
       [] OTHER -> {}) \X {IF p \in Path THEN RealPath(p) ELSE p : p \in rule.names}

(* A call that runs does nothing a loaded rule is there to stop, whichever tool does it, by
   whatever name of the file and through however many wrappers the check follows (NestLimit); a
   search batch holds no query one names; no shown line is from a file a Read rule names; and a
   file tool's call is held back for nothing else. *)
RulesHold ==
    /\ \A rule \in deny :
           /\ call # None => Effects(call) \cap Stops(rule) = {}
           /\ \A p \in shown : <<"read", RealPath(p)>> \notin Stops(rule)
    /\ blocked # None => (blocked.tool \in {"read", "write", "edit"} =>
           \E rule \in deny : Effects(blocked) \cap Stops(rule) # {})
==============================================================================
