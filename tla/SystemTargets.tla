--------------------------- MODULE SystemTargets ---------------------------
(***************************************************************************)
(* The rules of SystemCleaner (src/system_cleaner.rs): what discover lists *)
(* for a tree, one definition for each of its discover functions. Whether  *)
(* a target needs root, and how it is described, is left out.              *)
(***************************************************************************)
EXTENDS CleanTree

CONSTANTS
  Home,
  Running,     (* the running kernel's version, or Unknown                 *)
  Unknown

Cache == Home \o <<".cache">>
Share == Home \o <<".local", "share">>
State == Home \o <<".local", "state", "nvim">>
VarLog == <<"var", "log">>

PackageCaches ==
  LET apt == <<"var", "cache", "apt">> IN FlattenSeq(<<
    Target("PackageCache", {p \in Children(apt \o <<"archives">>) : Has(p, ".deb")}),
    Target("PackageCache", FilesIn(apt \o <<"archives", "partial">>)),
    IfExists("PackageCache", apt \o <<"pkgcache.bin">>),
    IfExists("PackageCache", apt \o <<"srcpkgcache.bin">>),
    Dirs("PackageCache", {<<"var", "cache", "dnf">>}),
    Target("PackageCache", FilesIn(<<"var", "cache", "pacman", "pkg">>)),
    Dirs("PackageCache", {<<"var", "cache", "zypp", "packages">>})>>)

(* A dot and a digit from 1 to 9 anywhere in the name will do. *)
IsRotatedLog(p) == \E piece \in {".1-9", ".gz", ".xz", ".bz2", ".zst", ".old"} : Has(p, piece)

LogDirs == <<"apt", "dpkg", "cups", "samba", "nginx", "apache2", "mysql", "postgresql",
             "unattended-upgrades", "installer">>

SystemLogs == FlattenSeq(<<
  Target("SystemLogs", {p \in FilesIn(VarLog) : IsRotatedLog(p)}),
  FlattenSeq([i \in DOMAIN LogDirs |-> Target("SystemLogs",
    {p \in FilesBelow(VarLog \o <<LogDirs[i]>>) : IsRotatedLog(p)})]),
  Target("SystemLogs", {p \in FilesBelow(VarLog \o <<"journal">>) :
                          Has(p, ".journal") /\ Has(p, "@")}),
  EachThatExists("SystemLogs", VarLog,
    << <<"btmp.1">>, <<"wtmp.1">>, <<"dmesg.0">>, <<"dmesg.1.gz">> >>)>>)

IsKernel(p) ==
  \E piece \in {"vmlinuz-", "initrd.img-", "initramfs-", "System.map-", "config-"} : Has(p, piece)

(* Slip: what was found is not compared with the running kernel. *)
AnyVersion(p) == Running # Unknown

(* Newer kernels are not the running one either. *)
OtherVersion(p) == Running # Unknown /\ ~Has(p, Running)

OldKernels == FlattenSeq(<<
  Target("OldKernels", {p \in Children(<<"boot">>) : IsKernel(p) /\ OtherVersion(p)}),
  Target("OldKernels", {p \in Children(<<"lib", "modules">>) : IsDir(p) /\ OtherVersion(p)}),
  Target("OldKernels", {p \in Children(<<"usr", "src">>) :
                          Has(p, "linux-headers-") /\ OtherVersion(p)})>>)

ThumbnailCache ==
  Target("ThumbnailCache", {p \in Children(Cache \o <<"thumbnails">>) : IsDir(p)})
    \o Dirs("ThumbnailCache", {Home \o <<".thumbnails">>})

ShaderCache ==
  EachThatExists("ShaderCache", Cache,
    << <<"mesa_shader_cache">>, <<"mesa_shader_cache_db">>, <<"nvidia">>,
       <<"radv_builtin_shaders64">> >>)
    \o EachDir("ShaderCache", <<Home \o <<".nv">>, Cache \o <<"fontconfig">>>>)

LanguageCaches == FlattenSeq(<<
  EachDir("LanguageCache", <<Cache \o <<"pip">>>>),
  Dirs("LanguageCache", {Cache \o <<"npm">>, Home \o <<".npm">>}),
  Dirs("LanguageCache", {Cache \o <<"yarn">>, Home \o <<".yarn", "cache">>}),
  EachDir("LanguageCache", <<
    Cache \o <<"pnpm">>, Home \o <<".cargo", "registry", "cache">>, Cache \o <<"go-build">>,
    Home \o <<"go", "pkg", "mod", "cache", "download">>, Home \o <<".m2", "repository">>,
    Home \o <<".gradle", "caches">>, Cache \o <<"composer">>, Home \o <<".gem">>,
    Home \o <<".nuget", "packages">>>>)>>)

(* The link directory is listed for overlay2, whether it is there or not. *)
ContainerCaches ==
  LET docker == <<"var", "lib", "docker">> IN FlattenSeq(<<
    EachDir("ContainerCache", <<docker \o <<"buildkit">>>>),
    Target("ContainerCache", {d \o <<"l">> : d \in {e \in {docker \o <<"overlay2">>} : IsDir(e)}}),
    EachDir("ContainerCache", <<docker \o <<"volumes">>, docker \o <<"tmp">>,
                                Share \o <<"containers", "cache">>>>)>>)

Revisions(app) == {p \in Children(app) : IsDir(p) /\ Has(p, "digits")}

(* All revisions but the one of the highest number, active or not. *)
OldRevisions(app) ==
  {p \in Revisions(app) : \E q \in Revisions(app) : Number[Last(q)] > Number[Last(p)]}

SnapFlatpak == FlattenSeq(<<
  Target("SnapFlatpak", UNION {OldRevisions(app) : app \in Children(<<"snap">>)}),
  Dirs("SnapFlatpak",
       {app \o <<"common", ".cache">> : app \in Children(Home \o <<"snap">>)}),
  EachDir("SnapFlatpak", <<<<"var", "lib", "flatpak", "runtime">>,
                           Share \o <<"flatpak", "repo", "tmp">>>>)>>)

TempFiles == FlattenSeq(<<
  Target("TempFiles", {p \in Children(<<"tmp">>) : tree[p].mine}),
  Target("TempFiles", {p \in Children(<<"var", "tmp">>) : tree[p].old}),
  EachDir("TempFiles", <<Share \o <<"Trash">>>>),
  Dirs("TempFiles", {State \o <<"swap">>, State \o <<"undo">>}),
  EachThatExists("TempFiles", Home, << <<".xsession-errors">>, <<".xsession-errors.old">> >>)>>)

(* In /tmp, anybody's. *)
CoreDumps == FlattenSeq(<<
  Target("CoreDumps", FilesIn(<<"var", "lib", "systemd", "coredump">>)),
  Target("CoreDumps", {p \in FilesIn(Home) \cup FilesIn(<<"tmp">>) : Has(p, "core")}),
  EachDir("CoreDumps", <<<<"var", "spool", "abrt">>>>),
  Target("CoreDumps", FilesIn(<<"var", "crash">>))>>)

RecentDocuments == FlattenSeq(<<
  EachThatExists("RecentDocuments", Share, << <<"recently-used.xbel">> >>),
  Target("RecentDocuments", FilesIn(Share \o <<"RecentDocuments">>)),
  EachThatExists("RecentDocuments", Share, << <<"recently-used.xbel.bak">> >>),
  EachThatExists("RecentDocuments", Home,
    << <<".bash_history">>, <<".zsh_history">>, <<".python_history">>, <<".lesshst">>,
       <<".viminfo">>, <<".local", "state", "nvim", "shada", "main.shada">>,
       <<".wget-hsts">> >>)>>)

Discovered == FlattenSeq(<<
  PackageCaches, SystemLogs, OldKernels, ThumbnailCache, ShaderCache, LanguageCaches,
  ContainerCaches, SnapFlatpak, TempFiles, CoreDumps, RecentDocuments>>)
=============================================================================
