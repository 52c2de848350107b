------------------------------ MODULE Cleaners ------------------------------
(***************************************************************************)
(* SystemCleaner and BrowserCleaner on one tree, one run of each at most,  *)
(* at the same time or one after the other, while other programs create,   *)
(* replace and remove files: what the commands system-clean and            *)
(* browser-clean of the program do (src/main.rs). A privacy audit was done *)
(* before them.                                                            *)
(***************************************************************************)
EXTENDS CleanTree

CONSTANTS
  Home, Running, Unknown, KeyLimit,
  SystemRequests, BrowserRequests,
  Layouts,          (* the trees to start from                             *)
  Arrivals,         (* the <<path, node>> other programs may put there     *)
  MaxMeddlings      (* bound on what other programs do                     *)

ASSUME CleanersAssumption == \A layout \in Layouts : IsFiniteSet(DOMAIN layout)

(* Paths are sequences of names, and the home directory is not below one   *)
(* of the directories the rules for the system look into.                  *)
ASSUME PathsAssumption ==
  /\ \A layout \in Layouts : DOMAIN layout \subseteq Seq(STRING)
  /\ \A a \in Arrivals : a[1] \in Seq(STRING)
  /\ Home \in Seq(STRING) /\ Len(Home) >= 1
  /\ Home[1] \notin {"boot", "lib", "snap", "tmp", "usr", "var"}

(* What a path lies in is a directory of the tree; the root of all is left *)
(* out.                                                                    *)
ASSUME LayoutsAssumption ==
  \A layout \in Layouts : \A p \in DOMAIN layout :
    /\ p # <<>>
    /\ \A k \in 1..Len(p) - 1 :
         SubSeq(p, 1, k) \in DOMAIN layout /\ layout[SubSeq(p, 1, k)].kind = "dir"

(* What there is has an owner, an age and a size, in bytes.                *)
ASSUME NodesAssumption == \A layout \in Layouts : \A p \in DOMAIN layout : layout[p] \in Node

VARIABLES
  systemPhase, systemRequest, systemTargets, systemReport, systemTodo, systemWalk,
  systemErased, systemEntered, systemRefused,
  browserPhase, browserRequest, browserTargets, browserReport, browserTodo, browserWalk,
  browserErased, browserEntered, browserRefused,
  audited,   (* what the audit found before                                *)
  meddled    (* ghost: the paths other programs touched since a run began  *)

systemVars == <<systemPhase, systemRequest, systemTargets, systemReport, systemTodo, systemWalk,
                systemErased, systemEntered, systemRefused>>
browserVars == <<browserPhase, browserRequest, browserTargets, browserReport, browserTodo,
                 browserWalk, browserErased, browserEntered, browserRefused>>
cleanerVars == <<tree, systemVars, browserVars, audited, meddled>>

SystemRules == INSTANCE SystemTargets
BrowserRules == INSTANCE BrowserTargets
Audit == INSTANCE PrivacyAudit

System == INSTANCE CleanRun WITH
  Requests <- SystemRequests, listed <- SystemRules!Discovered,
  phase <- systemPhase, request <- systemRequest, targets <- systemTargets,
  report <- systemReport, todo <- systemTodo, walk <- systemWalk,
  erased <- systemErased, entered <- systemEntered, refused <- systemRefused
Browser == INSTANCE CleanRun WITH
  Requests <- BrowserRequests, listed <- BrowserRules!Discovered,
  phase <- browserPhase, request <- browserRequest, targets <- browserTargets,
  report <- browserReport, todo <- browserTodo, walk <- browserWalk,
  erased <- browserErased, entered <- browserEntered, refused <- browserRefused

InitWith(layout) ==
  /\ tree = layout /\ System!Init /\ Browser!Init
  /\ audited = Audit!FullAudit
  /\ meddled = {}

Init == \E layout \in Layouts : InitWith(layout)

SystemClean == System!Next /\ UNCHANGED <<browserVars, audited, meddled>>
BrowserClean == Browser!Next /\ UNCHANGED <<systemVars, audited, meddled>>

Underway(phase) == phase \in {"found", "cleaning"}

(* Another program removes a file or an empty directory, or puts a file in *)
(* the place of one or beside it.                                          *)
Meddle ==
  /\ Underway(systemPhase) \/ Underway(browserPhase)
  /\ Cardinality(meddled) < MaxMeddlings
  /\ \/ \E p \in DOMAIN tree :
          /\ Inside(p) = {}
          /\ tree' = [q \in DOMAIN tree \ {p} |-> tree[q]] /\ meddled' = meddled \cup {p}
     \/ \E a \in Arrivals :
          /\ IsDir(Front(a[1])) /\ ~IsDir(a[1])
          /\ tree' = [q \in DOMAIN tree \cup {a[1]} |-> IF q = a[1] THEN a[2] ELSE tree[q]]
          /\ meddled' = meddled \cup {a[1]}
  /\ UNCHANGED <<systemVars, browserVars, audited>>

Next == SystemClean \/ BrowserClean \/ Meddle

-----------------------------------------------------------------------------
(* Of the running kernel, and of all if it is unknown.                     *)
OfKernelInUse(p) ==
  \E d \in {<<"boot">>, <<"lib", "modules">>, <<"usr", "src">>} :
    IsStrictPrefix(d, p) /\ (Running = Unknown \/ Has(<<p[Len(d) + 1]>>, Running))

(* Below /var/log, but for what a name says is not written to any more.    *)
LogInUse(p) ==
  /\ IsStrictPrefix(<<"var", "log">>, p)
  /\ p[3] \notin {"btmp.1", "wtmp.1", "dmesg.0", "dmesg.1.gz"}
  /\ \A k \in 3..Len(p) :
       /\ ~SystemRules!IsRotatedLog(<<p[k]>>)
       /\ ~(Has(<<p[k]>>, ".journal") /\ Has(<<p[k]>>, "@"))

(* What of a home directory the rules are about. *)
Sweepable ==
  {".cache", ".cargo", ".config", ".gem", ".gradle", ".local", ".m2", ".mozilla", ".npm", ".nuget",
   ".nv", ".thumbnails", ".yarn", "go", "snap", ".bash_history", ".zsh_history",
   ".python_history", ".lesshst", ".viminfo", ".wget-hsts", ".xsession-errors",
   ".xsession-errors.old"}

OwnDocument(p) ==
  /\ IsStrictPrefix(Home, p)
  /\ LET name == p[Len(Home) + 1] IN name \notin Sweepable /\ ~Has(<<name>>, "core")

(* What the comments of the rules promise to leave alone, and what no rule *)
(* is about. A directory of the user's own in /tmp, or an old one in       *)
(* /var/tmp, goes with whatever is in it.                                  *)
Protected(p, node) ==
  \/ OfKernelInUse(p)
  \/ LogInUse(p)
  \/ OwnDocument(p)
  \/ Front(p) = <<"tmp">> /\ ~node.mine /\ ~Has(p, "core")
  \/ Front(p) = <<"var", "tmp">> /\ ~node.old

(* A cleaner erases nothing that is protected, nor sets out to erase such  *)
(* a directory, unless another program put it in the place of what was     *)
(* listed.                                                                 *)
ProtectedSurvives ==
  \A e \in systemErased \cup systemEntered \cup browserErased \cup browserEntered :
    e[1] \in meddled \/ ~Protected(e[1], e[2])

(* Left to themselves, the cleaners leave nothing behind they could have   *)
(* erased, also if they run at the same time and get in each other's way.  *)
CleanIsThorough == meddled = {} => System!Thorough /\ Browser!Thorough

(* Left to itself, a run frees what it reported, as far as it was counted  *)
(* once and erased. The other run may have been first, also halfway        *)
(* through a directory.                                                    *)
FreedAsReported ==
  meddled = {} =>
    /\ System!FreesWhatItReports(browserErased)
    /\ Browser!FreesWhatItReports(systemErased)

(* The audit says "Shred" of these all the same: logs in use, which the    *)
(* rules spare, what no rule knows of, or only if it is a directory, and   *)
(* a directory of which only the files go.                                 *)
NotSwept(p) ==
  \/ Front(p) = <<"var", "log">>
  \/ p = Home \o <<".thumbnails">> /\ ~IsDir(p)
  \/ p \in {Home \o h : h \in {
       <<".local", "share", "fish", "fish_history">>, <<".node_repl_history">>,
       <<".mysql_history">>, <<".psql_history">>, <<".sqlite_history">>,
       <<".local", "share", "RecentDocuments">>,
       <<".local", "share", "zeitgeist">>, <<".local", "share", "tracker">>,
       <<".local", "share", "baloo">>, <<".local", "share", "copyq">>,
       <<".local", "share", "gpaste">>, <<".local", "share", "klipper">>,
       <<".local", "share", "clipman">>, <<".config", "copyq">>, <<".config", "CopyQ">>,
       <<".cache", "shotwell", "thumbs">>}}

(* Browser data that does not lie in a profile directory itself, or in one *)
(* of another name than the cleaner knows.                                 *)
OutsideProfiles(p) ==
  \A root \in Audit!Browsers :
    \/ Front(Front(p)) # Home \o root
    \/ root # <<".mozilla", "firefox">> /\ ~Has(Front(p), "profile")

CleanedAll(phase, request, categories) ==
  phase = "done" /\ ~request.dry /\ categories \subseteq request.categories

Entered == systemEntered \cup browserEntered

(* secure_delete failed on p, or on what lies in it, or on something in a  *)
(* directory it was to erase with p in it.                                 *)
Failed(p) ==
  \E q \in systemRefused \cup browserRefused :
    IsPrefix(p, q) \/ \E e \in Entered : IsPrefix(e[1], p) /\ IsPrefix(e[1], q)

(* The audit and the cleaners agree: what the audit wants reviewed or      *)
(* encrypted no cleaner erases, but for favicons, and for what bears the   *)
(* name of browser data deep in a directory that is erased; and once both  *)
(* have cleaned everything, nothing it wants shredded is left but what is  *)
(* named above and where secure_delete failed.                             *)
AuditIsHeeded ==
  meddled = {} =>
    /\ \A f \in audited :
         f.action # "Shred" /\ Last(f.path) # "Favicons" =>
           \/ f.path \notin {e[1] : e \in systemErased \cup browserErased \cup Entered}
           \/ f.category = "BrowserData" /\ \E e \in Entered : IsStrictPrefix(e[1], f.path)
    /\ /\ CleanedAll(systemPhase, systemRequest, {"RecentDocuments", "ThumbnailCache"})
       /\ CleanedAll(browserPhase, browserRequest,
                     {"Cache", "Cookies", "History", "FormData", "Passwords"})
       => \A f \in Audit!FullAudit :
            f.action = "Shred" =>
              \/ Failed(f.path)
              \/ NotSwept(f.path)
              \/ f.category = "BrowserData" /\ OutsideProfiles(f.path)
=============================================================================
