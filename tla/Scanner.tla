------------------------------- MODULE Scanner -------------------------------
(***************************************************************************)
(* `policyaware scan` (cli.py scan_code over scanner.py): a folder is      *)
(* searched for files, a pool of threads reads them and applies the rules, *)
(* the findings are filtered by the configuration and by a baseline of     *)
(* accepted fingerprints, and --fail-on makes the exit code.  People edit  *)
(* the files meanwhile; a policy is read twice, once as a text and once as *)
(* YAML.                                                                   *)
(*                                                                         *)
(* A text is a sequence of lines, and a line the marks that the patterns   *)
(* and words of the scanner would find on it, with an evidence (the line   *)
(* redacted: a replaced secret leaves it as it was).                       *)
(***************************************************************************)
EXTENDS Naturals, Sequences, FiniteSets

CONSTANTS
    Texts,      \* what a file may hold: sequences of lines
    Folders,    \* folders of files: for each a text, and what else is known of it
    Configs,    \* --config files and rulesets, as ScanConfig reads them
    Invocations, \* the command lines the scanner is called with, without --fail-on
    DefaultCap, \* DEFAULT_MAX_FINDINGS_PER_FILE
    AllCategories, \* no enabled_categories were given
    MaxScans, MaxEdits \* bounds

Codes    == {".py", ".ts"}
Yamls    == {".yaml"}
Settings == {".yaml", ".env"} \* _is_config_file
Levels   == {"critical", "high", "medium", "low"}

Place ==
    [suffix : Codes \cup Settings \cup {".md"}, listed : BOOLEAN, excluded : BOOLEAN, ignored : BOOLEAN,
     changed : BOOLEAN, large : BOOLEAN, readable : BOOLEAN]

File == [place : Place, text : Texts]

Options ==
    [root : Nat, \* the number of a file; 0: the folder
     diff : {"off", "top", "below", "fails"}, \* --diff at the top of the repository, below it, without git
     config : Configs, baseline : BOOLEAN, write : BOOLEAN]

IsList(s) == Len(s) \in Nat /\ DOMAIN s = 1 .. Len(s)

ASSUME ScannerAssumption ==
    /\ DefaultCap \in Nat \ {0}
    /\ \A c \in Configs : c.cap \in Nat
    /\ \A t \in Texts : IsList(t)
    /\ Folders \subseteq Seq(File)
    /\ Invocations \subseteq Options
    /\ MaxScans \in Nat /\ MaxEdits \in Nat

VARIABLES
    folder,   \* the files, numbered in the order of their names: place and text
    accepted, \* the fingerprints in the baseline file
    scan,     \* the scan under way, or the last one
    found,    \* findings of the files read, in the order of completion
    scans, edits

scanVars == <<folder, accepted, scan, found, scans, edits>>

Numbered == DOMAIN folder

FailOn == Levels \cup {"none", "hgih"}

ScannerTypeOK ==
    /\ folder \in Seq(File)
    /\ scan.at \in {"idle", "reading", "ended"}
    /\ scan.at = "reading" =>
        /\ scan.options \in Options
        /\ scan.pending \subseteq Numbered
        /\ scan.begun \subseteq [file : Numbered, text : Texts]
    /\ scan.at = "ended" => scan.exit \in {0, 1, 2} /\ scan.failOn \in FailOn
    /\ \A i \in DOMAIN found : found[i].severity \in Levels /\ found[i].file \in {0} \cup Numbered
    /\ scans \in 0 .. MaxScans
    /\ edits \in 0 .. MaxEdits

ScannerInit ==
    /\ folder \in Folders
    /\ accepted = {}
    /\ scan = [at |-> "idle"]
    /\ found = <<>>
    /\ scans = 0
    /\ edits = 0

-----------------------------------------------------------------------------
(* Which files: _should_scan_file, and _discover_files with the patterns   *)
(* and git_changed_files.  A single file is never matched against either;  *)
(* git names the files from the top of the repository, so below it no name *)
(* fits, while an empty answer means no restriction.                       *)
ShouldScan(f) == folder[f].place.listed /\ ~folder[f].place.large

InDiff(f, diff) ==
    CASE diff = "off"     -> TRUE
      [] diff = "top"     -> folder[f].place.changed \/ \A g \in Numbered : ~folder[g].place.changed
      [] diff = "below"   -> \A g \in Numbered : ~folder[g].place.changed
      [] diff = "fails"  -> TRUE

Discovered(options) ==
    IF options.root # 0 THEN {f \in {options.root} \cap Numbered : ShouldScan(f)}
    ELSE {f \in Numbered : /\ ~folder[f].place.excluded
                           /\ InDiff(f, options.diff)
                           /\ ~folder[f].place.ignored
                           /\ ShouldScan(f)}

-----------------------------------------------------------------------------
(* Python compares tuples of numbers by the first that differ.             *)
Less(a, b) == \E k \in DOMAIN a : a[k] < b[k] /\ \A j \in 1 .. k - 1 : a[j] = b[j]

Sorted(keys) ==
    [n \in 1 .. Cardinality(keys) |-> CHOOSE x \in keys : Cardinality({y \in keys : y = x \/ Less(y, x)}) = n]

\* What of a sequence is at these places.
Only(s, places) == LET at == Sorted({<<i>> : i \in places}) IN [n \in DOMAIN at |-> s[at[n][1]]]

-----------------------------------------------------------------------------
(* What a text has: marks, and the lines its suppression comments cover.   *)
Marked(text, mark) == \E n \in DOMAIN text : mark \in text[n].marks

SuppressedLines(text) ==
    {n \in DOMAIN text : "ignore-line" \in text[n].marks}
        \cup {n + 1 : n \in {m \in DOMAIN text : "ignore-next" \in text[m].marks}}

IsComment(line) == "comment" \in line.marks
HasGateway(text) == \E n \in DOMAIN text : "gateway" \in text[n].marks /\ ~IsComment(text[n])

\* A pattern without a match on any line is taken to be on the first one.
FirstMatchLine(text, mark) ==
    IF Marked(text, mark) THEN CHOOSE n \in DOMAIN text : /\ mark \in text[n].marks
                                                          /\ \A m \in 1 .. n - 1 : mark \notin text[m].marks
    ELSE 1

Found(category, severity, file, line, evidence) ==
    [category |-> category, severity |-> severity, file |-> file, line |-> line, evidence |-> evidence]

(* The rules on a line, in their order: PHI is looked for only without a   *)
(* secret, PII only without either.                                        *)
LineRule(category, severity, mark, unless) ==
    [category |-> category, severity |-> severity, mark |-> mark, unless |-> unless]

LineRules ==
    <<LineRule("Secrets", "critical", "secret", {}),
      LineRule("PHI", "high", "phi", {"secret"}),
      LineRule("PII", "medium", "pii", {"secret", "phi"}),
      LineRule("LLM Governance", "high", "model call", {"gateway in text"}),
      LineRule("Prompt Safety", "high", "prompt risk", {})>>

\* Pairs of a line and of a rule that it meets; comments meet none.
LineHits(text) ==
    LET context == IF HasGateway(text) THEN {"gateway in text"} ELSE {}
    IN  {h \in (DOMAIN text) \X (DOMAIN LineRules) :
            LET rule == LineRules[h[2]] IN
            /\ ~IsComment(text[h[1]])
            /\ rule.mark \in text[h[1]].marks
            /\ rule.unless \cap (text[h[1]].marks \cup context) = {}}

LineFinding(text, h, file) ==
    Found(LineRules[h[2]].category, LineRules[h[2]].severity, file, h[1], {text[h[1]].evidence})

(* The rules on a text: a mark of each set in `on` is there, none of those *)
(* in `unless`; the finding is put on the first line of one of the marks   *)
(* in `sites`.                                                             *)
TextRule(category, severity, on, unless, files, sites) ==
    [category |-> category, severity |-> severity, on |-> on, unless |-> unless, files |-> files, sites |-> sites]

Everywhere == Codes \cup Settings \cup {".md"}

\* What code does around its calls of models, tools and agents.
CallRules ==
    <<TextRule("LLM Governance", "high", {{"model call"}}, {"gateway in text", "reported call"}, Everywhere, {"model call"}),
      TextRule("Tool Governance", "high", {{"tool word"}}, {"approval"}, Codes, {"tool word"}),
      TextRule("Provider Governance", "medium", {{"provider"}}, {"gateway in text"}, Codes, {"provider"}),
      TextRule("Guardrails Integration", "medium", {{"guardrails"}}, {"gateway in text"}, Codes, {"guardrails"}),
      TextRule("Data Residency", "medium", {{"region", "url"}}, {"region policy"}, Everywhere, {"region", "url"}),
      TextRule("Agent Tool Governance", "high", {{"agent tool"}}, {"approval"}, Codes, {"agent tool"}),
      TextRule("Autonomous Agent Governance", "high", {{"loop"}}, {"approval"}, Codes, {"loop"})>>

\* What bounds them, what they retrieve and store, and how it is configured.
DataRules ==
    <<TextRule("Cost Governance", "medium", {{"model call", "agent tool"}}, {"budget"}, Everywhere, {"model call", "agent tool"}),
      TextRule("RAG Governance", "medium", {{"rag"}}, {"citation"}, Codes, {"rag"}),
      TextRule("Data Pipeline Governance", "medium", {{"pipeline"}}, {}, Codes, {"pipeline"}),
      TextRule("RAG Governance", "medium", {{"rag"}}, {"metadata"}, Codes, {"rag"}),
      TextRule("Data Pipeline Governance", "high", {{"pipeline"}, {"pii column"}}, {}, Codes, {"pipeline", "pii column"}),
      TextRule("Auditability", "medium", {{"model call"}}, {"audit"}, Codes, {"model call"}),
      TextRule("Configuration Governance", "high", {{"secret context"}}, {}, Settings, {"secret context"}),
      TextRule("Shadow AI Governance", "high", {{"install"}}, {"approval"}, Codes, {"install"}),
      TextRule("Shadow AI Governance", "medium", {{"registration"}}, {"gateway in text"}, Codes, {"registration"})>>

\* _scan_yaml_policy and _scan_guard_policy; "unmarked guard": one without its
\* custom marker, its config path or its rail specification.
PolicyFileRules ==
    <<TextRule("Policy YAML", "high", {{"schema error"}}, {}, Yamls, {}),
      TextRule("Policy YAML", "medium", {{"no default deny"}}, {}, Yamls, {}),
      TextRule("Guardrails Integration", "medium", {{"unmarked guard"}}, {}, Yamls, {}),
      TextRule("Guardrails Integration", "low", {{"guard without when"}}, {}, Yamls, {})>>

TextRules == CallRules \o DataRules

\* The earliest of the first lines; the rules about a policy are put on line 1.
SiteOf(text, rule) ==
    LET lines == {FirstMatchLine(text, mark) : mark \in rule.sites} \cup (IF rule.sites = {} THEN {1} ELSE {})
    IN  CHOOSE n \in lines : \A m \in lines : n =< m

MarksOf(text) == UNION {text[n].marks : n \in DOMAIN text}

\* What these rules find in a text with these marks.
RuleFindings(rules, text, marks, suffix, file) ==
    LET hits == Only(rules, {i \in DOMAIN rules :
                                /\ \A some \in rules[i].on : some \cap marks # {}
                                /\ rules[i].unless \cap marks = {}
                                /\ suffix \in rules[i].files})
    IN  [i \in DOMAIN hits |-> Found(hits[i].category, hits[i].severity, file, SiteOf(text, hits[i]), UNION hits[i].on \cup hits[i].unless)]

\* The policy is the file's text as it was when it was read once more.
TextFindings(text, policy, suffix, file, callReported) ==
    LET context == (IF HasGateway(text) THEN {"gateway in text"} ELSE {})
                       \cup (IF callReported THEN {"reported call"} ELSE {})
    IN  RuleFindings(TextRules, text, MarksOf(text) \cup context, suffix, file)
            \o RuleFindings(PolicyFileRules, policy, MarksOf(policy), suffix, file)

FirstOf(findings, cap) == IF Len(findings) > cap THEN SubSeq(findings, 1, cap) ELSE findings

(* The loop over the lines ends once it has found as much as the cap.      *)
OnLines(text, file, cap) ==
    LET open == {h \in LineHits(text) : h[1] \notin SuppressedLines(text)}
        met  == {h \in open : Cardinality({g \in open : g[1] < h[1]}) < cap}
        at   == Sorted(met)
    IN  [i \in DOMAIN at |-> LineFinding(text, at[i], file)]

AllFindings(text, policy, suffix, file, cap) ==
    LET onLines == OnLines(text, file, cap)
    IN  onLines \o TextFindings(text, policy, suffix, file, \E i \in DOMAIN onLines : onLines[i].category = "LLM Governance")

Unsuppressed(text, findings) ==
    Only(findings, {i \in DOMAIN findings : findings[i].line \notin SuppressedLines(text)})

(* Mutant of ScanFile: the findings are cut before the suppressed ones     *)
(* among them are dropped.                                                 *)
CutThenSuppress(text, policy, suffix, file, cap) ==
    IF Marked(text, "ignore-file") THEN <<>>
    ELSE Unsuppressed(text, FirstOf(AllFindings(text, policy, suffix, file, cap), cap))

(* _scan_file: the lines until the cap is met, then the text, then the     *)
(* policy; what the text suppresses is dropped, of the policy's findings   *)
(* too, and the rest cut to the cap.                                       *)
ScanFile(text, policy, suffix, file, cap) ==
    IF Marked(text, "ignore-file") THEN <<>>
    ELSE FirstOf(Unsuppressed(text, AllFindings(text, policy, suffix, file, cap)), cap)

-----------------------------------------------------------------------------
(* ScanConfig.from_file keeps the overrides that name a level; for_ruleset *)
(* has none.                                                               *)
Overridden(config, finding) ==
    IF finding.category \in DOMAIN config.overrides /\ config.overrides[finding.category] \in Levels
    THEN config.overrides[finding.category] ELSE finding.severity

IsCategoryEnabled(config, category) ==
    /\ config.enabled = AllCategories \/ category \in config.enabled
    /\ category \notin config.disabled

Cap(config) == IF config.cap = 0 THEN DefaultCap ELSE config.cap

Rank(level) == IF level \in Levels THEN [critical |-> 0, high |-> 1, medium |-> 2, low |-> 3][level] ELSE 9

\* The file is ".", when it is itself what is scanned.
NameOf(f, options) == IF options.root = f THEN 0 ELSE f

ShouldFail(failOn, report) ==
    failOn # "none" /\ \E i \in DOMAIN report : Rank(report[i].severity) =< Rank(failOn)

(* scan_code up to the pool: --config with a --ruleset is refused before   *)
(* anything else, and nothing of that is kept; what is not is read now.    *)
StartScan ==
    /\ scan.at = "idle"
    /\ scans < MaxScans
    /\ \E options \in Invocations :
        scan' = [at |-> "reading", options |-> options, pending |-> Discovered(options), begun |-> {},
                 known |-> IF options.baseline THEN accepted ELSE {}, read |-> {}]
    /\ found' = <<>>
    /\ scans' = scans + 1
    /\ UNCHANGED <<folder, accepted, edits>>

\* A fingerprint is taken of the finding as the rules made it.
Fingerprint(finding) == finding

\* Is it opened again, as YAML?  The name decides, not what is in it.
ReadTwice(f, text) ==
    folder[f].place.suffix \in Yamls /\ folder[f].place.readable /\ ~Marked(text, "ignore-file")

\* found, once a thread is done with a file of which it read this.
Extended(f, text, policy) ==
    found \o ScanFile(text, policy, folder[f].place.suffix, NameOf(f, scan.options), Cap(scan.options.config))

(* A thread of the pool reads a file, and is done with it unless it is one *)
(* to open again.  One that cannot be read any more has no findings.       *)
ReadFile(f) ==
    /\ scan.at = "reading"
    /\ f \in scan.pending
    /\ LET t == IF folder[f].place.readable THEN folder[f].text ELSE <<>>
       IN  IF ReadTwice(f, t)
           THEN /\ scan' = [scan EXCEPT !.pending = @ \ {f}, !.begun = @ \cup {[file |-> f, text |-> t]}]
                /\ UNCHANGED found
           ELSE /\ scan' = [scan EXCEPT !.pending = @ \ {f}, !.read = @ \cup {[file |-> f, text |-> t, policy |-> <<>>]}]
                /\ found' = Extended(f, t, <<>>)
    /\ UNCHANGED <<folder, accepted, scans, edits>>

(* _scan_yaml_policy opens the file again, whatever it holds by now.  What *)
(* cannot be opened or parsed any more has no findings as a policy.        *)
ReadPolicy(f) ==
    /\ scan.at = "reading"
    /\ \E r \in scan.begun, policy \in {folder[f].text, <<>>} :
        /\ r.file = f
        /\ scan' = [scan EXCEPT !.begun = @ \ {r}, !.read = @ \cup {[file |-> f, text |-> r.text, policy |-> policy]}]
        /\ found' = Extended(f, r.text, policy)
    /\ UNCHANGED <<folder, accepted, scans, edits>>

(* The end of scan, and of scan_code: fingerprints, categories, overrides, *)
(* baseline, order; the reports are written (or one cannot be: wrote is    *)
(* FALSE), then the new baseline, and --fail-on is looked at last.         *)
EndScan(wrote, failOn) ==
    LET o      == scan.options
        fresh  == {i \in DOMAIN found : /\ IsCategoryEnabled(o.config, found[i].category)
                                        /\ Fingerprint(found[i]) \notin scan.known}
        level(x) == Overridden(o.config, x)
        at     == Sorted({<<Rank(level(found[i])), found[i].file, found[i].line, i>> : i \in fresh}) \* list.sort is stable
        report == [n \in DOMAIN at |-> LET x == found[at[n][4]] IN [finding |-> x, severity |-> level(x)]]
    IN  /\ scan.at = "reading"
        /\ scan.pending = {} /\ scan.begun = {}
        /\ accepted' = IF wrote /\ o.write THEN {Fingerprint(found[i]) : i \in fresh} ELSE accepted
        /\ scan' = [at |-> "ended", options |-> o, failOn |-> failOn, read |-> scan.read, known |-> scan.known,
                    report |-> IF wrote THEN report ELSE <<>>,
                    exit |-> IF ~wrote THEN 1
                             ELSE IF failOn = "hgih" THEN 2
                             ELSE IF ShouldFail(failOn, report) THEN 1 ELSE 0]
        /\ UNCHANGED <<folder, found, scans, edits>>

(* The process ends; only the baseline file is kept.                       *)
Exit ==
    /\ scan.at = "ended"
    /\ scan' = [at |-> "idle"]
    /\ found' = <<>>
    /\ UNCHANGED <<folder, accepted, scans, edits>>

Edit(f) ==
    /\ edits < MaxEdits
    /\ scan.at # "ended"
    /\ \E text \in Texts \ {folder[f].text} : folder' = [folder EXCEPT ![f].text = text]
    /\ edits' = edits + 1
    /\ UNCHANGED <<accepted, scan, found, scans>>

ScannerNext ==
    \/ StartScan \/ Exit
    \/ \E f \in Numbered : ReadFile(f) \/ ReadPolicy(f) \/ Edit(f)
    \/ \E wrote \in BOOLEAN, failOn \in FailOn : EndScan(wrote, failOn)

ScannerSpec == ScannerInit /\ [][ScannerNext]_scanVars

-----------------------------------------------------------------------------
(* What is wrong with a text and with a policy, rule by rule and line by   *)
(* line, and is not suppressed by the text: no cap, no loop, no order.     *)
Problems(text, policy, suffix, file) ==
    LET onLines == {LineFinding(text, h, file) : h \in LineHits(text)}
        calls == \E x \in onLines : x.category = "LLM Governance" /\ x.line \notin SuppressedLines(text)
        onText == LET s == TextFindings(text, policy, suffix, file, calls) IN {s[i] : i \in DOMAIN s}
    IN  IF Marked(text, "ignore-file") THEN {}
        ELSE {x \in onLines \cup onText : x.line \notin SuppressedLines(text)}

(* A scan that ends with 0 under --fail-on vouches for what it read: every *)
(* problem of a level that should fail the pipeline is in the baseline, of *)
(* a category that is switched off, or in a file that had its fill of      *)
(* findings; whatever the order in which the threads came back and what    *)
(* the levels were changed to.  What it read of a policy file are two      *)
(* texts, and an edit between the two mixes them: the lines and their      *)
(* suppressions are of the first, the schema, the default and the guards   *)
(* of the second, and the report fits neither.  It is no more than that    *)
(* which it vouches for.  And every report lists by level, then by file,   *)
(* then by line.  (scan, _scan_file, _scan_yaml_policy, _should_fail_scan) *)
GateSound ==
    scan.at = "ended" =>
        /\ scan.exit = 0 /\ scan.failOn # "none" =>
            \A r \in scan.read :
                LET o    == scan.options
                    name == NameOf(r.file, o)
                    all  == Problems(r.text, r.policy, folder[r.file].place.suffix, name)
                    full == Cardinality({i \in DOMAIN found : found[i].file = name}) = Cap(o.config)
                IN  \A x \in all :
                        \/ ~IsCategoryEnabled(o.config, x.category)
                        \/ Rank(Overridden(o.config, x)) > Rank(scan.failOn)
                        \/ x \in scan.known
                        \/ full
        /\ \A i, j \in DOMAIN scan.report : i < j =>
            LET a == scan.report[i]
                b == scan.report[j]
            IN  /\ Rank(a.severity) =< Rank(b.severity)
                /\ a.severity = b.severity =>
                    /\ a.finding.file =< b.finding.file
                    /\ a.finding.file = b.finding.file => a.finding.line =< b.finding.line
=============================================================================
