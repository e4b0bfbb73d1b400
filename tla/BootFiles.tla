----------------------------- MODULE BootFiles -----------------------------
(***************************************************************************)
(* The file system a session starts with: ShellState::bootstrap of         *)
(* crates/ssh_hunt_server/src/main.rs.  It is a list of calls of mkdir_p   *)
(* and write_file whose results are thrown away (let _ = ...), so a file   *)
(* written before its directory is made is not there and nobody is told.   *)
(* What a file says is left out: its text is told by its name.             *)
(***************************************************************************)
EXTENDS VfsTree

Mkdirs(paths) == [i \in DOMAIN paths |-> [call |-> "mkdir_p", path |-> paths[i]]]
Writes(dir, names) ==
    [i \in DOMAIN names |-> [call |-> "write_file", path |-> Append(dir, names[i])]]

TutorialFiles ==
    Mkdirs(<<<<"home">>, <<"tmp">>, <<"logs">>, <<"missions">>, <<"home", "player">>,
             <<"data">>, <<"data", "lore">>, <<"data", "reports">>, <<"var", "spool">>>>)
    \o Writes(<<"missions">>, <<"readme.txt", "welcome.txt", "tutorial-progress.txt",
                                "rookie-ops.txt", "story-so-far.txt">>)
    \o Writes(<<"logs">>, <<"neon-gateway.log">>)
    \o Writes(<<"data">>, <<"node-registry.csv">>)
    \o Writes(<<"var", "spool">>, <<"tasks.txt">>)
    \o Writes(<<"logs">>, <<"access.log">>)

TrainingFiles ==
    Writes(<<"data", "reports">>, <<"q1-summary.txt">>)
    \o Writes(<<"data", "lore">>, <<"ghost-rail-dossier.txt", "field-manual.txt",
                                    "netcity-fragment.txt">>)
    \o Writes(<<"data">>, <<"inventory.tsv">>)
    \o Writes(<<"var", "log">>, <<"auth.log">>)
    \o Writes(<<"etc">>, <<"hostname", "hosts">>)
    \o Writes(<<"var", "log">>, <<"syslog">>)
    \o Writes(<<"home", "player">>, <<"notes.txt", "journal.txt">>)
    \o Mkdirs(<<<<"data", "workspace">>>>)
    \o Writes(<<"data", "workspace">>, <<"config.txt", "manifest.txt">>)
    \o Writes(<<"var", "log">>, <<"events.log">>)
    \o Writes(<<"data">>, <<"pipeline.csv">>)
    \o Writes(<<"etc">>, <<"sim-config">>)
    \o Writes(<<"data">>, <<"node-status.json">>)
    \o Writes(<<"home", "player">>, <<"tasks.txt">>)

TrainingLabs ==
    Writes(<<"data">>, <<"netmap.tsv">>)
    \o Writes(<<"logs">>, <<"blackbox.log">>)
    \o Writes(<<"var", "log">>, <<"auth-ips.log">>)
    \o Writes(<<"logs">>, <<"access-ips.log">>)
    \o Writes(<<"data">>, <<"supply-manifest.csv", "signal-feed.txt", "proc-table.txt",
                            "crontab.txt">>)
    \o Mkdirs(<<<<"data", "configs">>>>)
    \o Writes(<<"data", "configs">>, <<"relay.conf", "vault.conf">>)

DropsAndDossiers ==
    Mkdirs(<<<<"data", "drops">>>>)
    \o Writes(<<"missions">>, <<"escape-start.txt">>)
    \o Writes(<<"data", "drops">>, <<"fragment-1.txt", "fragment-2.txt">>)
    \o Writes(<<"home", "player">>, <<"fragment-3.txt">>)
    \o Writes(<<"data", "reports">>, <<"rivet-field-report.txt", "nix-frequency-scan.log">>)
    \o Writes(<<"data", "lore">>, <<"lumen-price-list.txt">>)
    \o Writes(<<"data", "reports">>, <<"dusk-detention.log">>)
    \o Writes(<<"data", "classified">>, <<"kestrel-briefing.txt">>)

StoryFiles ==
    Writes(<<"data", "classified">>, <<"ferro-lockdown-order.txt">>)
    \o Writes(<<"data", "drops">>, <<"patch-package.txt">>)
    \o Writes(<<"data", "intercepts">>, <<"sable-to-wren.enc">>)
    \o Writes(<<"logs">>, <<"maintenance-chatter.log">>)
    \o Writes(<<"data", "classified">>, <<"argon-exec-orders.txt">>)
    \o Writes(<<"data", "reports">>, <<"kestrel-tracking.log", "nix-full-analysis.csv">>)
    \o Writes(<<"data", "lore">>, <<"lumen-transactions.log">>)

MemosAndOrders ==
    Writes(<<"data", "lore">>, <<"lumen-transactions-reach.log">>)
    \o Writes(<<"logs">>, <<"crucible-netmap-fragments.txt">>)
    \o Writes(<<"data", "classified">>, <<"wren-reply.enc">>)
    \o Writes(<<"data", "reports">>, <<"changelog.txt">>)
    \o Mkdirs(<<<<"data", "classified">>>>)
    \o Writes(<<"data", "classified">>, <<".memo">>)
    \o Writes(<<"var", "log">>, <<"access-detail.log">>)
    \o Mkdirs(<<<<"data", "comms">>>>)
    \o Writes(<<"data", "comms">>, <<"recovered-fragment.txt">>)
    \o Writes(<<"logs">>, <<"crypto-events.log">>)

CommsAndIntercepts ==
    Writes(<<"data">>, <<"personnel.csv">>)
    \o Writes(<<"tmp">>, <<"axon-times.txt", "vault-drops.txt">>)
    \o Writes(<<"logs">>, <<"netflow.log">>)
    \o Mkdirs(<<<<"data", "intercepts">>>>)
    \o Writes(<<"data", "intercepts">>, <<"comms-dump.txt">>)
    \o Writes(<<"data", "configs">>, <<"vault-before.conf", "vault-after.conf">>)
    \o Writes(<<"data", "classified">>, <<".wren-note">>)
    \o Writes(<<"tmp">>, <<".wren-cache">>)
    \o Writes(<<"home", "player">>, <<".wren-drop">>)
    \o Writes(<<"data">>, <<"netflow-summary.tsv">>)

AftermathAndArray ==
    Writes(<<"data">>, <<"crontab-full.txt">>)
    \o Writes(<<"data", "classified">>, <<"wren-final.enc">>)
    \o Writes(<<"var", "log">>, <<"incident.log">>)
    \o Mkdirs(<<<<"crystal">>, <<"crystal", "zenith">>, <<"crystal", "ops">>,
                <<"crystal", "comms">>, <<"crystal", "classified">>,
                <<"crystal", "reports">>, <<"crystal", "intercepts">>,
                <<"crystal", "apex">>>>)
    \o Writes(<<"crystal">>, <<"gate-key.b64">>)
    \o Writes(<<"crystal", "zenith">>, <<"activity.log", "sync-internal.log",
                                         "sync-external.log">>)
    \o Writes(<<"crystal">>, <<"power-grid.log">>)
    \o Writes(<<"crystal", "classified">>, <<"vault-sat-13.enc">>)

ArrayOps ==
    Writes(<<"crystal", "reports">>, <<"volt-power-survey.txt", "zenith-circuits.txt",
                                       "civilian-circuits.txt">>)
    \o Writes(<<"crystal", "comms">>, <<"quicksilver-route.b64", "quicksilver-hidden.b64">>)
    \o Writes(<<"crystal", "classified">>, <<"cipher-notebook.enc">>)
    \o Writes(<<"crystal", "ops">>, <<"spectre-kills.log", "spectre-spared.log",
                                      "spectre-intel.txt">>)

ArrayIntercepts ==
    Writes(<<"crystal", "ops">>, <<"thermal-grid.log", "motion-sensors.log">>)
    \o Writes(<<"crystal", "zenith">>, <<"core-dump.hex", "node-manifest.csv",
                                         "population-index.log", "behavioral-model.log",
                                         "prediction-accuracy.csv", "sync-times.txt",
                                         "sync-latency.txt">>)
    \o Writes(<<"crystal", "classified">>, <<"zenith-feed.enc">>)

ArrayReports ==
    Writes(<<"crystal", "intercepts">>, <<"obsidian-orders.b64", "dominion-brief.b64">>)
    \o Writes(<<"crystal", "classified">>, <<"wren-truth.enc">>)
    \o Writes(<<"crystal", "apex">>, <<"core.b64">>)
    \o Mkdirs(<<<<"crystal", "personal">>, <<"crystal", "recovered">>>>)
    \o Writes(<<"crystal", "personal">>, <<"volt-maintenance-diary.txt",
                                           "quicksilver-family-letter.enc",
                                           "cipher-research-notes.txt">>)

PersonalFiles ==
    Writes(<<"crystal", "personal">>, <<"spectre-mission-log.txt",
                                        "obsidian-strategic-assessment.txt">>)
    \o Writes(<<"crystal", "recovered">>, <<"wren-internal-report.txt",
                                            "wren-to-kestrel-unsent.txt",
                                            "apex-evolution.log">>)

RecoveredFiles ==
    Writes(<<"crystal", "recovered">>, <<"volt-quicksilver-comms.txt",
                                         "cipher-to-wren.txt", "obsidian-to-sable.txt">>)
    \o Writes(<<"crystal", "personal">>, <<"zenith-self-diagnostic.log">>)
    \o Writes(<<"crystal", "recovered">>, <<"kestrel-to-spectre.txt">>)
    \o Writes(<<"crystal", "personal">>, <<"apex-message-to-operative.txt">>)

RedactedFiles ==
    Mkdirs(<<<<"crystal", "redacted">>>>)
    \o Writes(<<"crystal", "redacted">>, <<".snk-trace-001", ".snk-trace-002",
                                           ".snk-trace-003">>)
    \o Writes(<<"data", "classified">>, <<".snk-fragment">>)
    \o Writes(<<"crystal", "ops">>, <<"flux-price-list.txt">>)

Bootstrap ==
    TutorialFiles \o TrainingFiles \o TrainingLabs \o DropsAndDossiers
        \o StoryFiles \o MemosAndOrders \o CommsAndIntercepts
        \o AftermathAndArray \o ArrayOps \o ArrayIntercepts \o ArrayReports
        \o PersonalFiles \o RecoveredFiles \o RedactedFiles

\* The files the list leaves behind: mkdir_p makes every prefix of its path, and
\* write_file makes its file if its directory is there by then (no name of the
\* list is both a file and a directory).
DirsAfter(i) ==
    {Root} \cup UNION {{SubSeq(Bootstrap[j].path, 1, k) : k \in 1..Len(Bootstrap[j].path)} :
                        j \in {j \in 1..i : Bootstrap[j].call = "mkdir_p"}}
Written ==
    {i \in DOMAIN Bootstrap : /\ Bootstrap[i].call = "write_file"
                              /\ Parent(Bootstrap[i].path) \in DirsAfter(i)}
BootedFiles == {Bootstrap[i].path : i \in Written}
=============================================================================
