---------------------------- MODULE MCReclaiming ----------------------------
(* Small instances of the parts: every rule of a cleaner that could meet   *)
(* another rule or a file it must spare, every kind of piece a format has. *)
EXTENDS Reclaiming, TLC

H == <<"home">>
Fox == H \o <<".mozilla", "firefox">>
Chrome == H \o <<".config", "google-chrome">>

MCPieces ==
  "a.deb" :> {".deb"} @@ "syslog.1" :> {".1-9"} @@ "btmp.1" :> {".1-9"} @@ "old.gz" :> {".gz"}
  @@ "dmesg.1.gz" :> {".1-9", ".gz"}
  @@ "user@1.journal" :> {".journal", "@"} @@ "system.journal" :> {".journal"}
  @@ "6" :> {"6"} @@ "7" :> {"7"}
  @@ "vmlinuz-6" :> {"vmlinuz-", "6"} @@ "vmlinuz-7" :> {"vmlinuz-", "7"}
  @@ "config-7" :> {"config-", "7"} @@ "linux-headers-7" :> {"linux-headers-", "7"}
  @@ "core.1" :> {"core"} @@ "1" :> {"digits"} @@ "2" :> {"digits"}
  @@ "id.pub" :> {".pub"}
  @@ "Default" :> {"profile"} @@ "Profile 1" :> {"profile"}
MCNumber == "1" :> 1 @@ "2" :> 2

Mine == [kind |-> "file", size |-> 2, mine |-> TRUE, old |-> TRUE]
Theirs == [kind |-> "file", size |-> 1, mine |-> FALSE, old |-> FALSE]
Linked == [kind |-> "link", size |-> 2, mine |-> TRUE, old |-> TRUE]
Folder == [kind |-> "dir", size |-> 0, mine |-> TRUE, old |-> TRUE]
TheirFolder == [Folder EXCEPT !.mine = FALSE, !.old = FALSE]
Recent == [Mine EXCEPT !.old = FALSE]

Alone(p, node) == [q \in {p} |-> node]

(* What a path lies in is a directory. *)
Closure(layout) ==
  layout @@ [q \in UNION {{SubSeq(p, 1, k) : k \in 1..Len(p) - 1} : p \in DOMAIN layout} |-> Folder]

(* Where rules of both cleaners, or two rules of one, or a rule and what   *)
(* it must spare, come together: two such files at a time.                 *)
Crowded == {
  <<"tmp", "a">>, <<"tmp", "core.1">>, <<"var", "tmp", "a">>,
  <<"var", "log", "syslog.1">>, <<"var", "log", "btmp.1">>, <<"var", "log", "dmesg.1.gz">>,
  <<"boot", "vmlinuz-6">>, <<"boot", "vmlinuz-7">>,
  H \o <<".local", "share", "recently-used.xbel">>, H \o <<".cache", "thumbnails", "large">>}

(* One at a time. *)
Lone == {
  <<"var", "cache", "apt", "archives", "a.deb">>, <<"var", "cache", "apt", "pkgcache.bin">>,
  <<"var", "cache", "apt", "archives", "partial", "x">>, <<"var", "cache", "dnf", "x">>,
  <<"var", "log", "syslog">>, <<"var", "log", "apt", "old.gz">>,
  <<"var", "log", "journal", "m", "user@1.journal">>,
  <<"var", "log", "journal", "m", "system.journal">>,
  <<"boot", "config-7">>, <<"lib", "modules", "7", "x">>, <<"usr", "src", "linux-headers-7", "x">>,
  H \o <<".thumbnails">>, H \o <<".cache", "mesa_shader_cache", "x">>, H \o <<".nv", "x">>,
  H \o <<".cache", "pip", "x">>, H \o <<".npm", "x">>,
  <<"var", "lib", "docker", "overlay2", "l", "x">>, <<"var", "lib", "docker", "volumes", "x">>,
  <<"snap", "app", "1", "x">>, H \o <<"snap", "app", "common", ".cache", "x">>,
  H \o <<".xsession-errors">>, H \o <<".local", "share", "Trash", "x">>,
  H \o <<".local", "state", "nvim", "swap", "x">>,
  <<"var", "crash", "x">>, <<"var", "spool", "abrt", "x">>, H \o <<"core.1">>,
  H \o <<".bash_history">>, H \o <<".local", "share", "RecentDocuments", "x">>,
  H \o <<".local", "share", "fish", "fish_history">>, H \o <<".zsh_history">>,
  H \o <<".local", "share", "klipper">>, <<"var", "log", "auth.log">>,
  H \o <<".ssh", "id">>, H \o <<".ssh", "id.pub">>, H \o <<".ssh", "known_hosts">>,
  H \o <<"notes">>, Fox \o <<"p", "prefs.js">>, Fox \o <<"p", "cookies.sqlite">>,
  Fox \o <<"Crash Reports", "x">>, Fox \o <<"p", "logins.json">>,
  Chrome \o <<"Default", "Bookmarks">>, Chrome \o <<"Default", "Favicons">>,
  Chrome \o <<"Default", "Extensions", "Bookmarks">>,
  Chrome \o <<"Default", "Network", "Cookies">>, Chrome \o <<"System Profile", "History">>}

(* Directories that are erased, or that must not be: of several owners and *)
(* ages, with links in them, listed by both cleaners, or by one as a whole *)
(* and in parts by the other; and the running kernel's.                    *)
Trees == {
  Alone(<<"tmp", "d", "a">>, Theirs) @@ Alone(<<"tmp", "d", "b">>, Mine),
  Alone(<<"tmp", "d">>, TheirFolder) @@ Alone(<<"tmp", "d", "a">>, Mine),
  Alone(<<"var", "tmp", "d", "a">>, Recent) @@ Alone(<<"var", "tmp", "e">>, TheirFolder),
  Alone(<<"tmp", "d", "a">>, Mine) @@ Alone(<<"tmp", "d", "b">>, Linked),
  Alone(H \o <<".local", "share", "Trash", "e", "x">>, Mine)
    @@ Alone(H \o <<".local", "share", "Trash", "y">>, Theirs),
  Alone(H \o <<".cache", "thumbnails", "large", "x">>, Mine)
    @@ Alone(H \o <<".cache", "thumbnails", "y">>, Theirs),
  Alone(H \o <<".thumbnails", "normal">>, Mine),
  Alone(<<"lib", "modules", "6", "x">>, Theirs) @@ Alone(<<"lib", "modules", "7", "x">>, Theirs),
  Alone(Chrome \o <<"Default", "History">>, Mine)
    @@ Alone(Chrome \o <<"chrome_debug.log">>, Theirs)
    @@ Alone(Chrome \o <<"Profile 1", "Cookies">>, Theirs),
  Alone(<<"snap", "app", "1", "x">>, Mine) @@ Alone(<<"snap", "app", "2", "x">>, Mine)}

MCLayouts ==
  {Closure(layout) : layout \in
     {Alone(p, node) : p \in Lone, node \in {Mine, Linked, Folder}}
     \cup {Alone(e[1], e[2]) @@ Alone(f[1], f[2]) : e, f \in Crowded \X {Mine, Theirs}}
     \cup Trees}

MCArrivals == {
  <<<<"tmp", "a">>, Theirs>>, <<<<"tmp", "d", "a">>, Theirs>>, <<<<"var", "tmp", "a">>, Theirs>>,
  <<<<"var", "log", "syslog.1">>, Linked>>}

OfSystem == {"PackageCache", "SystemLogs", "OldKernels", "ThumbnailCache", "ShaderCache",
             "LanguageCache", "ContainerCache", "SnapFlatpak", "TempFiles", "CoreDumps",
             "RecentDocuments"}
OfBrowsers == {"Cache", "Cookies", "History", "Sessions", "FormData", "Passwords", "Downloads",
               "Thumbnails", "ServiceWorkers", "IndexedDB", "LocalStorage", "WebSQL", "Logs",
               "CrashReports", "Extensions", "SystemTemp"}

MCSystemRequests == {[categories |-> OfSystem, dry |-> FALSE], [categories |-> OfSystem, dry |-> TRUE],
                     [categories |-> {"CoreDumps", "SystemLogs"}, dry |-> FALSE]}
MCBrowserRequests == {[categories |-> OfBrowsers, dry |-> FALSE],
                      [categories |-> {"History"}, dry |-> FALSE]}

-----------------------------------------------------------------------------
MCPolicy == "Yearly" :> 2 @@ "Monthly" :> 2 @@ "Weekly" :> 2 @@ "Daily" :> 1

(* Below the least size, of it, and two contents of one size; the second   *)
(* list of roots meets file 2 twice.                                       *)
MCSizes == "" :> 0 @@ "x" :> 1 @@ "yy" :> 2 @@ "zz" :> 2
MCRoots == {<<{1, 2, 3}>>, <<{1, 2, 3}, {2}>>}

(* Overlapping one another, overlapping itself, one within the other.      *)
MCSignatureSets == {{<<1, 2>>, <<2, 0>>}, {<<1, 2, 1>>}, {<<1, 1>>, <<1, 2, 2>>}}

-----------------------------------------------------------------------------
UpTo(S, n) == UNION {[1..k -> S] : k \in 0..n}

(* APP1 of all sizes, one that is too short, one cut off, other segments,  *)
(* one that holds the bytes of APP1, markers alone, and stray bytes.       *)
JpegPieces == {
  <<255, 225, 0, 2>>, <<255, 225, 0, 3, 7>>, <<255, 225, 0, 1>>, <<255, 225, 0, 9>>,
  <<255, 200, 0, 2>>, <<255, 200, 0, 4, 255, 225>>, <<255, 0>>, <<255, 218>>, <<7>>, <<255>>}

Chunks(sizes) == [type : {"tEXt", "IDAT"}, size : sizes]

SOI == <<255, 216>>

MCPdfKeys == <<"/Author", "/Creator">>
MCOfficeTags == <<"c", "r">>
MCMp4Keys == <<"encoded_by", "creation_time">>

MCSamples ==
  ({"Jpeg"} \X {SOI \o FlattenSeq(s) : s \in UpTo(JpegPieces, 4)})
  \cup ({"Png"} \X {s \o e : s \in UpTo(Chunks({14}), 3), e \in UpTo(Chunks({11, 12}), 1)})
  \cup ({"Pdf"} \X UpTo({"/Author", "/Creator", "(", ")", "x", "raw"}, 6))
  \cup ({"Mp3"} \X UpTo({<<"ID3", 1>>, <<"ID3", 2>>, <<"TAG">>, <<"a">>}, 4))
  \cup ({"Office"} \X UpTo({<<"open", "c">>, <<"close", "c">>, <<"open", "r">>, <<"close", "r">>,
                            <<"x">>, <<"raw">>}, 5))
  \cup ({"Mp4"} \X UpTo({"encoded_by", "creation_time", "NUL", "v"}, 5))
  \cup ({"other"} \X {<<"x">>})
=============================================================================
