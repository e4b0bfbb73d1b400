---------------------------- MODULE MissionBoard ----------------------------
(***************************************************************************)
(* The mission board of the world service (crates/world/src/lib.rs): the   *)
(* tables of seed_missions, what each mission pays, whose mail it brings.  *)
(* Of a mission are kept the words its validation looks for in the output  *)
(* of a session (with_validation), and of the line it suggests: the files  *)
(* that line reads and what comes of it when they are there.               *)
(***************************************************************************)
EXTENDS BootFiles

Suggestion(outcome, code, reads, words) ==
    [code |-> code, words |-> words, reads |-> reads, outcome |-> outcome]

\* The line prints the words.
Shows(code, reads, words) == Suggestion("Shows", code, reads, words)
\* The line runs, but prints something else: a count, other columns, another
\* spelling, a command instead of its output, or nothing.
Hides(code, reads, words) == Suggestion("Hides", code, reads, words)
\* The line contains "base64 -d", which the intrusion guard takes for an escape.
Banned(code, reads, words) == Suggestion("Banned", code, reads, words)

FirstSteps == {
    Shows("nav-101", {}, {}),
    Hides("read-101", {<<"missions", "welcome.txt">>}, {"welcome"}),
    Shows("echo-101", {}, {"Ghost"}),
    Shows("grep-101", {<<"logs", "neon-gateway.log">>}, {"WARN"}),
    Shows("pipe-101", {<<"logs", "neon-gateway.log">>}, {"token"}),
    Shows("keys-vault", {}, {}),
    Hides("pipes-101", {<<"logs", "neon-gateway.log">>}, {"token"}),
    Shows("log-hunt", {<<"logs", "neon-gateway.log">>}, {"token"}),
    Shows("dedupe-city", {<<"logs", "neon-gateway.log">>}, {}),
    Shows("redirect-lab", {<<"logs", "neon-gateway.log">>}, {}),
    Shows("finder", {}, {})}

Anomalies == {
    Shows("timestamp-gap", {<<"logs", "neon-gateway.log">>}, {"INFO"}),
    Shows("ghost-user", {<<"var", "log", "auth.log">>}, {"wren"}),
    Shows("signal-trace", {<<"logs">>}, {"GLASS-AXON"}),
    Shows("deleted-file", {}, {".memo"}),
    Shows("first-clue", {<<"data", "reports", "changelog.txt">>}, {"unauthorized"}),
    Shows("rivet-log", {<<"data", "reports", "rivet-field-report.txt">>}, {"Rivet"}),
    Hides("nix-signal", {<<"data", "reports", "nix-frequency-scan.log">>}, {"ANOMALY"}),
    Shows("lumen-price", {<<"data", "lore", "lumen-price-list.txt">>}, {"Ghost Rail"}),
    Shows("dusk-alibi", {<<"data", "reports", "dusk-detention.log">>}, {"alibi"}),
    Hides("head-tail", {<<"logs", "neon-gateway.log">>}, {"token", "gateway"}),
    Shows("sort-count", {<<"data", "signal-feed.txt">>}, {"ghost-rail"})}

Insiders == {
    Hides("wc-report", {<<"logs", "neon-gateway.log">>}, {"token"}),
    Shows("tee-split", {<<"logs", "neon-gateway.log">>}, {}),
    Shows("xargs-run", {}, {}),
    Shows("access-pattern", {<<"var", "log", "access-detail.log">>}, {"10.77"}),
    Shows("purged-comms", {<<"data", "comms", "recovered-fragment.txt">>}, {"WREN"}),
    Hides("key-rotation", {<<"logs", "crypto-events.log">>}, {"rotate"}),
    Hides("roster-check", {<<"data", "personnel.csv">>}, {"wren"}),
    Shows("timing-attack", {<<"tmp", "axon-times.txt">>,
                            <<"tmp", "vault-drops.txt">>},
                           {"22:01"}),
    Shows("kestrel-brief", {<<"data", "classified", "kestrel-briefing.txt">>}, {"INTEL"}),
    Shows("ferro-lockdown", {<<"data", "classified", "ferro-lockdown-order.txt">>},
                            {"SUPPRESS"}),
    Hides("patch-delivery", {}, {"Nix"})}

FieldWork == {
    Shows("sable-intercept", {<<"data", "intercepts", "sable-to-wren.enc">>}, {"extraction"}),
    Hides("crucible-ping", {<<"logs", "maintenance-chatter.log">>}, {"CRU"}),
    Shows("awk-patrol", {<<"data", "node-registry.csv">>}, {}),
    Shows("chain-ops", {<<"var", "spool", "tasks.txt">>}, {}),
    Shows("sediment", {<<"logs", "access.log">>}, {}),
    Shows("cut-lab", {<<"data", "inventory.tsv">>}, {}),
    Shows("pattern-sweep", {<<"var", "log", "auth.log">>}, {"REJECT"}),
    Shows("file-ops", {<<"data", "workspace", "config.txt">>}, {}),
    Shows("regex-hunt", {<<"var", "log", "events.log">>}, {"ERROR"}),
    Shows("pipeline-pro", {<<"data", "pipeline.csv">>}, {}),
    Shows("var-play", {}, {}),
    Shows("json-crack", {<<"data", "node-status.json">>}, {})}

Audits == {
    Shows("seq-master", {<<"home", "player", "tasks.txt">>}, {}),
    Shows("column-view", {<<"data", "netmap.tsv">>}, {}),
    Shows("deep-pipeline", {<<"logs", "blackbox.log">>}, {"sector-7"}),
    Shows("log-forensics", {<<"var", "log", "auth.log">>,
                            <<"logs", "access.log">>},
                           {"10.0."}),
    Hides("data-transform", {<<"data", "supply-manifest.csv">>}, {"units"}),
    Hides("process-hunt", {}, {"relay"}),
    Shows("cron-decode", {<<"data", "crontab.txt">>}, {"sweep"}),
    Shows("permission-audit", {}, {"data"}),
    Shows("wren-profile", {<<"var", "log", "auth.log">>}, {"wren"}),
    Shows("exfil-trace", {<<"logs", "netflow.log">>}, {"external"}),
    Shows("reach-intercept", {<<"data", "intercepts", "comms-dump.txt">>}, {"Reach"})}

Conspiracy == {
    Shows("config-diff", {<<"data", "configs", "vault-before.conf">>,
                          <<"data", "configs", "vault-after.conf">>},
                         {"fingerprint"}),
    Shows("dead-drop", {}, {".wren"}),
    Shows("corpsim-memo", {<<"data", "classified", ".memo">>}, {"knew"}),
    Shows("network-map", {<<"data", "netflow-summary.tsv">>}, {"vault-sat-9"}),
    Shows("kill-switch", {<<"data", "crontab-full.txt">>}, {"wipe"}),
    Shows("argon-orders", {<<"data", "classified", "argon-exec-orders.txt">>}, {"DIRECTIVE"}),
    Shows("kestrel-hunt", {<<"data", "reports", "kestrel-tracking.log">>}, {"sector-7"}),
    Shows("ferro-bypass", {}, {"classified"}),
    Shows("nix-decoded", {<<"data", "reports", "nix-full-analysis.csv">>}, {"ARTIFICIAL"}),
    Shows("lumen-deal", {<<"data", "lore", "lumen-transactions.log">>,
                         <<"data", "lore", "lumen-transactions-reach.log">>},
                        {"routing"})}

Endgame == {
    Shows("crucible-map", {<<"logs", "crucible-netmap-fragments.txt">>}, {"MAP"}),
    Shows("incident-report", {<<"var", "log", "auth.log">>,
                              <<"logs", "access.log">>},
                             {"auth"}),
    Shows("anomaly-detect", {<<"data", "signal-feed.txt">>}, {"ANOMALY"}),
    Hides("escape-room", {<<"missions", "escape-start.txt">>}, {"ESCAPE"}),
    Hides("decrypt-wren", {<<"data", "classified", "wren-final.enc">>}, {"confession"}),
    Shows("prove-corpsim", {<<"data", "classified", ".memo">>}, {"EVIDENCE"}),
    Shows("final-report", {<<"var", "log", "auth.log">>,
                           <<"logs", "netflow.log">>},
                          {"INCIDENT"}),
    Shows("kestrel-verdict", {<<"data", "classified", ".memo">>}, {"EVIDENCE"}),
    Shows("crucible-offer", {}, {"ARCHIVE"}),
    Shows("wren-reply", {<<"data", "classified", "wren-reply.enc">>}, {"distraction"})}

ArrayGates == {
    Banned("crystal-gate", {<<"crystal", "gate-key.b64">>}, {"ARRAY-ACCESS"}),
    Hides("zenith-log", {<<"crystal", "zenith", "activity.log">>}, {"PREDICT"}),
    Shows("mirror-detect", {<<"crystal", "zenith", "sync-internal.log">>,
                            <<"crystal", "zenith", "sync-external.log">>},
                           {"MIRROR-SYNC"}),
    Shows("power-grid-map", {<<"crystal", "power-grid.log">>}, {"MW"}),
    Hides("vault-sat-13", {<<"crystal", "classified", "vault-sat-13.enc">>}, {"MODEL"}),
    Shows("volt-survey", {<<"crystal", "reports", "volt-power-survey.txt">>}, {"CRITICAL"}),
    Banned("quicksilver-trace", {<<"crystal", "comms", "quicksilver-route.b64">>},
                                {"BACKBONE"}),
    Hides("cipher-defection", {<<"crystal", "classified", "cipher-notebook.enc">>},
                              {"ALGORITHM"}),
    Hides("spectre-sighting", {<<"crystal", "ops", "thermal-grid.log">>,
                               <<"crystal", "ops", "motion-sensors.log">>},
                              {"SECTOR"}),
    Hides("zenith-core", {<<"crystal", "zenith", "core-dump.hex">>}, {"MINIMIZE"})}

ArrayModels == {
    Shows("surveillance-net", {<<"crystal", "zenith", "node-manifest.csv">>}, {"Neon Bazaar"}),
    Hides("population-index", {<<"crystal", "zenith", "population-index.log">>}, {"TRACKED"}),
    Hides("behavioral-model", {<<"crystal", "zenith", "behavioral-model.log">>},
                              {"PRESCRIBE"}),
    Shows("predictive-engine", {<<"crystal", "zenith", "prediction-accuracy.csv">>},
                               {"accuracy"}),
    Banned("cipher-decoded", {<<"crystal", "classified", "zenith-feed.enc">>}, {"MODEL-KEY"}),
    Hides("volt-override", {<<"crystal", "reports", "zenith-circuits.txt">>,
                            <<"crystal", "reports", "civilian-circuits.txt">>},
                           {"RACK"}),
    Banned("quicksilver-breach", {<<"crystal", "comms", "quicksilver-hidden.b64">>},
                                 {"UNMONITORED"}),
    Shows("spectre-dossier", {<<"crystal", "ops", "spectre-intel.txt">>}, {"VERIFIED"}),
    Banned("obsidian-intercept", {<<"crystal", "intercepts", "obsidian-orders.b64">>},
                                 {"DOMINION"}),
    Shows("zenith-mirror", {<<"crystal", "zenith", "sync-times.txt">>,
                            <<"crystal", "zenith", "sync-latency.txt">>},
                           {"HIGH-LATENCY"})}

ArrayFall == {
    Shows("apex-signal", {<<"crystal", "zenith">>}, {"APX-"}),
    Banned("apex-core-dump", {<<"crystal", "apex", "core.b64">>}, {"TERMINUS"}),
    Banned("wren-truth", {<<"crystal", "classified", "wren-truth.enc">>}, {"ZENITH"}),
    Banned("obsidian-orders", {<<"crystal", "intercepts", "dominion-brief.b64">>}, {"PHASE"}),
    Banned("shutdown-sequence", {<<"crystal", "reports", "volt-power-survey.txt">>,
                                 <<"crystal", "classified", "cipher-notebook.enc">>,
                                 <<"crystal", "apex", "core.b64">>},
                                {"SHUTDOWN"}),
    Hides("zenith-verdict", {<<"crystal", "zenith", "activity.log">>}, {"EVIDENCE"}),
    Hides("obsidian-fall", {}, {"SEVER"}),
    Banned("apex-terminus", {<<"crystal", "apex", "core.b64">>}, {"TERMINUS"})}


Board == FirstSteps \cup Anomalies \cup Insiders \cup FieldWork \cup Audits \cup Conspiracy
            \cup Endgame \cup ArrayGates \cup ArrayModels \cup ArrayFall

-----------------------------------------------------------------------------

\* The tracks that pay something of their own, by their code lists.
TUTORIAL_CODES == {"nav-101", "read-101", "echo-101", "grep-101", "pipe-101"}
INTERMEDIATE_CODES == {
    "head-tail", "sort-count", "wc-report", "tee-split", "xargs-run", "access-pattern",
    "purged-comms", "key-rotation", "roster-check", "timing-attack", "kestrel-brief",
    "ferro-lockdown", "patch-delivery", "sable-intercept", "crucible-ping"}
ADVANCED_CODES == {
    "awk-patrol", "chain-ops", "sediment", "cut-lab", "pattern-sweep", "file-ops",
    "regex-hunt", "pipeline-pro", "var-play", "json-crack", "seq-master", "column-view",
    "process-hunt", "cron-decode", "permission-audit", "wren-profile", "exfil-trace",
    "reach-intercept", "config-diff", "dead-drop", "corpsim-memo", "network-map",
    "kill-switch", "argon-orders", "kestrel-hunt", "ferro-bypass", "nix-decoded",
    "lumen-deal", "crucible-map"}
EXPERT_CODES == {
    "deep-pipeline", "log-forensics", "data-transform", "incident-report",
    "anomaly-detect", "escape-room", "decrypt-wren", "prove-corpsim", "final-report",
    "kestrel-verdict", "crucible-offer", "wren-reply"}
LEGENDARY_CODES == {
    "crystal-gate", "zenith-log", "mirror-detect", "power-grid-map", "vault-sat-13",
    "volt-survey", "quicksilver-trace", "cipher-defection", "spectre-sighting",
    "zenith-core", "surveillance-net", "population-index", "behavioral-model",
    "predictive-engine", "cipher-decoded", "volt-override", "quicksilver-breach",
    "spectre-dossier", "obsidian-intercept", "zenith-mirror", "apex-signal",
    "apex-core-dump", "wren-truth", "obsidian-orders", "shutdown-sequence",
    "zenith-verdict", "obsidian-fall", "apex-terminus"}

Pay(code) ==
    CASE code \in LEGENDARY_CODES -> 50
      [] code \in EXPERT_CODES -> 30
      [] code \in ADVANCED_CODES -> 20
      [] code \in INTERMEDIATE_CODES \cup {"keys-vault"} -> 15
      [] code \in TUTORIAL_CODES -> 5
      [] OTHER -> 10

\* Who writes when a mission is completed; two missions bring two letters.
EarlyMail == {
    <<"ghost-user", "NIX">>, <<"signal-trace", "NIX">>, <<"deleted-file", "FERRO">>,
    <<"rivet-log", "RIVET">>, <<"nix-signal", "NIX">>, <<"kestrel-brief", "KESTREL">>,
    <<"purged-comms", "PATCH">>, <<"corpsim-memo", "ARGON">>,
    <<"sable-intercept", "???">>, <<"dead-drop", "WREN">>,
    <<"argon-orders", "CRUCIBLE">>, <<"kestrel-hunt", "KESTREL">>,
    <<"decrypt-wren", "KESTREL">>, <<"prove-corpsim", "ARGON">>,
    <<"final-report", "CRUCIBLE">>, <<"kestrel-verdict", "KESTREL">>,
    <<"wren-reply", "WREN">>}
ArrayMail == {
    <<"crystal-gate", "EVA">>, <<"volt-survey", "VOLT">>,
    <<"quicksilver-trace", "QUICKSILVER">>, <<"cipher-defection", "CIPHER">>,
    <<"spectre-sighting", "SPECTRE">>, <<"zenith-core", "CRUCIBLE">>,
    <<"obsidian-intercept", "???">>, <<"wren-truth", "WREN">>, <<"apex-signal", "EVA">>,
    <<"shutdown-sequence", "KESTREL">>, <<"apex-terminus", "EVA">>,
    <<"volt-override", "QUICKSILVER">>, <<"quicksilver-breach", "VOLT">>,
    <<"cipher-decoded", "SPECTRE">>, <<"spectre-dossier", "KESTREL">>,
    <<"obsidian-fall", "FLUX">>, <<"zenith-verdict", "ZENITH">>,
    <<"apex-core-dump", "APX">>, <<"crystal-gate", "???">>, <<"apex-terminus", "???">>}
Letters(code) == {l \in EarlyMail \cup ArrayMail : l[1] = code}
=============================================================================
