---------------------------- MODULE PrivacyAudit ----------------------------
(***************************************************************************)
(* PrivacyAuditor (src/privacy_audit.rs): what full_audit finds in a tree, *)
(* one definition for each of its scans. It only reads. A finding keeps    *)
(* the path, the category, the risk and the recommended action; sizes,     *)
(* scores, descriptions and the order of the report are left out.          *)
(***************************************************************************)
EXTENDS CleanTree

CONSTANTS
  Home,
  KeyLimit      (* a file in .ssh that is smaller may be a private key     *)

Finding(category, risk, action, paths) ==
  {[path |-> p, category |-> category, risk |-> risk, action |-> action] : p \in paths}

There(base, names) == {p \in {base \o n : n \in names} : Exists(p)}
FilesThere(base, names) == {p \in {base \o n : n \in names} : IsFile(p)}

Browsers == {<<".mozilla", "firefox">>, <<".config", "google-chrome">>, <<".config", "chromium">>,
             <<".config", "BraveSoftware", "Brave-Browser">>}

SensitiveNames == [
  Critical |-> {"logins.json", "key4.db", "signons.sqlite", "Login Data"},
  High |-> {"places.sqlite", "cookies.sqlite", "formhistory.sqlite", "Cookies", "History", "Web Data"},
  Medium |-> {"Bookmarks"},
  Low |-> {"Favicons"}]

(* Slip: medium risks are to be shredded as well. *)
AdviceFromMedium(risk) == IF risk # "Low" THEN "Shred" ELSE "Review"

Advice(risk) == IF risk \in {"High", "Critical"} THEN "Shred" ELSE "Review"

(* Plain files of such a name, in any directory down to four levels. *)
BrowserData ==
  UNION {UNION {
    Finding("BrowserData", risk, Advice(risk),
            {p \in FilesBelow(Home \o b) :
               Len(p) <= Len(Home \o b) + 4 /\ Last(p) \in SensitiveNames[risk]})
      : risk \in DOMAIN SensitiveNames} : b \in Browsers}

LocalShare == Home \o <<".local", "share">>

RecentFiles ==
  Finding("RecentFiles", "Medium", "Shred",
    There(LocalShare, {<<"recently-used.xbel">>, <<"RecentDocuments">>, <<"zeitgeist">>}))
  \cup Finding("RecentFiles", "Low", "Shred", There(LocalShare, {<<"tracker">>, <<"baloo">>}))

ShellHistory ==
  Finding("ShellHistory", "High", "Shred", FilesThere(Home, {
    <<".bash_history">>, <<".zsh_history">>, <<".local", "share", "fish", "fish_history">>,
    <<".python_history">>, <<".node_repl_history">>, <<".lesshst">>, <<".mysql_history">>,
    <<".psql_history">>, <<".sqlite_history">>, <<".wget-hsts">>}))

NoKeys == {"known_hosts", "authorized_keys", "config", "known_hosts.old", "environment"}

LooksLikeKey(p) == ~Has(p, ".pub") /\ Last(p) \notin NoKeys /\ tree[p].size \in 1..KeyLimit - 1

SshData ==
  LET ssh == Home \o <<".ssh">> IN
  Finding("SshData", "Medium", "Review", FilesThere(ssh, {<<"known_hosts">>, <<"config">>}))
  \cup Finding("SshData", "High", "Review", FilesThere(ssh, {<<"authorized_keys">>}))
  \cup Finding("SshData", "Critical", "Encrypt", {p \in FilesIn(ssh) : LooksLikeKey(p)})

ClipboardManagers ==
  Finding("ClipboardHistory", "High", "Shred",
    There(Home, {<<".config", "copyq">>, <<".config", "CopyQ">>})
    \cup There(LocalShare, {<<"copyq">>, <<"gpaste">>, <<"klipper">>, <<"clipman">>}))

Thumbnails ==
  Finding("Thumbnails", "Medium", "Shred", There(Home, {
    <<".cache", "thumbnails">>, <<".thumbnails">>, <<".cache", "shotwell", "thumbs">>}))

Logs ==
  LET log == <<"var", "log">> IN
  Finding("SystemLogs", "High", "Shred", FilesThere(log, {<<"auth.log">>, <<"wtmp">>}))
  \cup Finding("SystemLogs", "Medium", "Shred",
         FilesThere(log, {<<"syslog">>, <<"btmp">>, <<"lastlog">>, <<"faillog">>}))
  \cup Finding("SystemLogs", "Low", "Shred", FilesThere(log, {<<"kern.log">>}))
  \cup Finding("SystemLogs", "High", "Review", {p \in {log \o <<"journal">>} : IsDir(p)})

FullAudit ==
  BrowserData \cup RecentFiles \cup ShellHistory \cup SshData \cup ClipboardManagers
    \cup Thumbnails \cup Logs
=============================================================================
