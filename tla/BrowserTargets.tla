--------------------------- MODULE BrowserTargets ---------------------------
(***************************************************************************)
(* The rules of BrowserCleaner (src/browser_cleaner.rs). Every target has  *)
(* one path. Names of browsers and descriptions are left out.              *)
(***************************************************************************)
EXTENDS CleanTree

CONSTANT Home

(* What a profile directory p may hold, and the category of each: a list   *)
(* of lists, one for each group of names.                                  *)
Firefox(p, root) == <<
  EachThatExists("Cache", p, << <<"cache2">>, <<"cache">>, <<"OfflineCache">>, <<"startupCache">> >>),
  EachThatExists("Cookies", p,
    << <<"cookies.sqlite">>, <<"cookies.sqlite-wal">>, <<"cookies.sqlite-shm">> >>),
  EachThatExists("History", p,
    << <<"places.sqlite">>, <<"places.sqlite-wal">>, <<"places.sqlite-shm">> >>),
  EachThatExists("Sessions", p,
    << <<"sessionstore.jsonlz4">>, <<"sessionstore-backups">>, <<"sessionCheckpoints.json">> >>),
  EachThatExists("FormData", p, << <<"formhistory.sqlite">>, <<"formhistory.sqlite-wal">> >>),
  EachThatExists("Passwords", p, << <<"logins.json">>, <<"key4.db">>, <<"signons.sqlite">> >>),
  EachThatExists("Downloads", p, << <<"downloads.sqlite">>, <<"downloads.json">> >>),
  EachThatExists("Thumbnails", p,
    << <<"thumbnails">>, <<"favicons.sqlite">>, <<"favicons.sqlite-wal">> >>),
  EachThatExists("ServiceWorkers", p, << <<"serviceworker">> >>),
  EachThatExists("IndexedDB", p, << <<"indexedDB">>, <<"storage", "default">> >>),
  EachThatExists("LocalStorage", p,
    << <<"webappsstore.sqlite">>, <<"webappsstore.sqlite-wal">>, <<"storage", "ls">> >>),
  EachThatExists("WebSQL", p, << <<"storage", "temporary">> >>),
  EachThatExists("Logs", p,
    << <<"weave", "logs">>, <<"datareporting">>, <<"saved-telemetry-pings">> >>),
  EachThatExists("CrashReports", p, << <<"minidumps">> >>),
  EachThatExists("CrashReports", root, << <<"Crash Reports">> >>),
  EachThatExists("Extensions", p, << <<"extensions">> >>)>>

(* Any directory beside the profiles is taken for one. *)
FirefoxTargets ==
  LET root == Home \o <<".mozilla", "firefox">>
      profiles == SetToSeq({p \in Children(root) : IsDir(p)})
  IN  FlattenSeq([i \in DOMAIN profiles |-> FlattenSeq(Firefox(profiles[i], root))])

Chromium(p, base) == <<
  EachThatExists("Cache", p, << <<"Cache">>, <<"Code Cache">>, <<"GPUCache">>, <<"ShaderCache">>,
                                <<"Storage", "ext">> >>),
  EachThatExists("Cache", base, << <<"ShaderCache">>, <<"GrShaderCache">>, <<"GraphiteDawnCache">> >>),
  EachThatExists("Cookies", p, << <<"Cookies">>, <<"Cookies-journal">> >>),
  EachThatExists("History", p, << <<"History">>, <<"History-journal">>, <<"Visited Links">>,
                                  <<"Top Sites">>, <<"Network Action Predictor">> >>),
  EachThatExists("Sessions", p, << <<"Sessions">>, <<"Session Storage">>, <<"Current Session">>,
                                   <<"Current Tabs">>, <<"Last Session">>, <<"Last Tabs">> >>),
  EachThatExists("FormData", p, << <<"Web Data">>, <<"Web Data-journal">> >>),
  EachThatExists("Passwords", p, << <<"Login Data">>, <<"Login Data-journal">>,
                                    <<"Login Data For Account">> >>),
  EachThatExists("Downloads", p, << <<"DownloadMetadata">> >>),
  EachThatExists("Thumbnails", p, << <<"Favicons">>, <<"Favicons-journal">>, <<"Thumbnails">> >>),
  EachThatExists("ServiceWorkers", p, << <<"Service Worker">> >>),
  EachThatExists("IndexedDB", p, << <<"IndexedDB">> >>),
  EachThatExists("LocalStorage", p, << <<"Local Storage">> >>),
  EachThatExists("WebSQL", p, << <<"databases">> >>),
  EachThatExists("Logs", p, << <<"chrome_debug.log">> >>),
  EachThatExists("Logs", base, << <<"chrome_debug.log">>  >>),
  EachThatExists("CrashReports", base, << <<"Crash Reports">> >>),
  EachThatExists("CrashReports", p, << <<"Crash Reports">> >>),
  EachThatExists("Extensions", p, << <<"Extensions">> >>)>>

(* What lies in the base directory is listed again for every profile. *)
ChromiumTargets(config) ==
  LET base == Home \o <<".config">> \o config
      profiles == SetToSeq({p \in Children(base) : IsDir(p) /\ Has(p, "profile")})
  IN  FlattenSeq([i \in DOMAIN profiles |-> FlattenSeq(Chromium(profiles[i], base))])

(* The user's files in /tmp, one target each, sized at once.               *)
OwnTemps ==
  LET mine == SetToSeq({p \in Children(<<"tmp">>) : tree[p].mine})
  IN  [i \in DOMAIN mine |->
        [category |-> "SystemTemp", paths |-> {mine[i]}, size |-> PathSize(mine[i])]]

SystemTemps == FlattenSeq(<<
  OwnTemps,
  EachThatExists("Cache", Home \o <<".cache">>,
    << <<"thumbnails">>, <<"fontconfig">>, <<"mesa_shader_cache">>, <<"mozilla">>,
       <<"google-chrome">>, <<"chromium">>, <<"BraveSoftware">>, <<"vivaldi">>,
       <<"microsoft-edge">>, <<"opera">>, <<"gstreamer-1.0">>, <<"pip">>, <<"yarn">>,
       <<"node">> >>),
  EachThatExists("SystemTemp", Home, << <<".local", "share", "Trash">> >>),
  EachThatExists("History", Home, << <<".local", "share", "recently-used.xbel">>,
                                     <<".local", "share", "recent">> >>)>>)

Configs == << <<"google-chrome">>, <<"chromium">>, <<"BraveSoftware", "Brave-Browser">>,
              <<"vivaldi">>, <<"microsoft-edge">>, <<"opera">> >>

Discovered ==
  FirefoxTargets \o FlattenSeq([i \in DOMAIN Configs |-> ChromiumTargets(Configs[i])])
    \o SystemTemps
=============================================================================
