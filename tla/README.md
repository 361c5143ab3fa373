# Makeroot in TLA+

Makeroot builds the system of an embedded device from one tree of makefiles:
it downloads, configures, builds and installs packages for a target, and
assembles a root file system and images.  A copy of kconfig
(`scripts/kconfig`) decides what is built.  Nearly all of it is GNU make: the
program's state lives in files (stamps, staging directories, `.cmd` files,
`.config`), its control flow in which rules make considers out of date, and
its hard cases are what a make finds that an earlier one left half done.

This directory holds TLA+ models of that core, configurations that check them
with TLC, and proofs checked with TLAPS.

Contents: 1 inventory, 2 hard behaviours, 3 plan, 4 modules, 5 runs,
6 findings, 7 bounds and fairness, 8 proofs, 9 what is not modelled.

## 1. Inventory

| Component | State it keeps | Operations | Correct when | Module |
|---|---|---|---|---|
| Package life cycle, `scripts/project.mk` | staging directory of each package, `.post-install` in it, its files in `sysroot` and `rootfs` | configure, build, install, post-install; rules of `do-project` | dependances are published first; a make that succeeds published everything; nothing half-installed is published; a failed make can be resumed | `Package`, `PackageLife` |
| Download, `scripts/download.mk` | source tree, kept archive copies, `.<pkg>.dwl` stamps | fetch by archive, file or repository; `make D=<dir>` | a stamp covers a whole tree; a broken transfer is retried | `Package` |
| Directory makefile, `scripts/Makefile` | loaded `.cmd` files, existing targets | `__build`, `install`, `download`, descent | sources come before packages; recorded commands reach the rules | `Package`, `Rebuild` |
| Incremental rebuild, `scripts/include.mk`, `builtin.mk`, `host.mk`, `library.mk` | targets, `.cmd` and depfiles | `if_changed`, `if_changed_dep`, `if_changed_rule` | an up-to-date target exactly when make says so | `Rebuild` |
| fixdep, docproc, `scripts/basic` | - | depfile to `.cmd` file | the `.cmd` file names what the compiler read | effect only, in `Rebuild` |
| kconfig symbols, `symbol.c` | user value, cached value, visibility and flags of each symbol; `modules_val` | `sym_calc_value`, `sym_set_tristate_value`, `sym_clear_all_valid` | a cached value is what the tree and the user's answers mean | `Symbol` |
| kconfig expressions, `expr.c` | - | evaluation; `expr_eliminate_eq`, `_dups`, `_yn`, `expr_transform`, `expr_trans_bool`, `expr_trans_compare` | rewriting keeps the value | `ExprTests`, `Expr`, `Kconfig` (evaluation) |
| kconfig parser, `zconf.y` | current menu, files being read | statements, blocks, `source`, `conf_parse` | blocks close in their file, no file is read twice | `MenuTree` (in part) |
| kconfig menu tree, `menu.c`; `sym_check_deps` | tree, properties | `menu_add_*`, `menu_finalize`, `menu_is_visible` | dependencies reach every property, no entry is lost, cycles are named | `MenuTree`, `DepCheck`, `Menu`; the result is `Kconfig` |
| kconfig file, `confdata.c` | `.config`, its copy, `autoconf.h` | `conf_read`, `conf_write` | a saved file is read back as it was meant, none is lost | `ConfigFile`, `Confdata`, `ConfWrite` |
| kconfig line front end, `conf.c` | cursor in the tree, mode, `conf_cnt` | `conf`, `check_conf`, `conf_sym`, `conf_choice` | every visible symbol is asked, nothing else changes, the dialogue ends | `Conf` |
| kconfig menus, `mconf.c`, `gconf.c`, `qconf.cc` | cursor, windows | the same calls as `conf.c` | - | no |
| Install program, `tools/install` | files, directories, backups | `install_file_in_file`, `copy_file`, `make_path` | concurrent runs do not harm each other, old files stay | `Install` |
| Top makefile and descent, `Makefile`, `subdir.mk` | - | goals, `SUBDIRS` | image after system | no |
| Files, toolchain, image: `install.mk`, `toolchain.mk`, `image.mk`, `ubifs.mk` | `rootfs`, links, images, mounts | install rules, `mkfs`, `fill-loop` | nothing stays mounted; sizes fit | no |
| rest of `tools/` | - | vendored `rpcgen`, `ldd` | - | no |
| `system/`, `kernel/`, `bootloader/`, `configs/` | - | package data, patches, init scripts | - | constants |

How they interact.  kconfig writes `.config`, which the makefiles include: it
determines the lists `subproject-y`, `obj-y`, `image-y`.  The top makefile
descends into the directories of `SUBDIRS`; in each, `scripts/Makefile`
includes the rule files and builds `__build`, whose prerequisites are, in this
order, the download stamps, the host programs, the toolchain, the packages,
the installed files, the images and the subdirectories.  A package's rule runs
make again for each of its four stages (`sprj=<pkg> configure-project` ...).
All communication is through files; the only concurrency is `make -j`, and the
only memory from one make to the next is the disk.  Inside kconfig one thread
runs: the front end calls symbol.c, which calculates values on demand by
mutual recursion with expr.c and caches them in the symbols.  Packages put
their files below the staging directory with the program of `tools/install`
(`INSTALL=` in project.mk), several at once under `make -j`.

## 2. Hard behaviours

PROJECT.json lists them at their lines.  In short:

* **What exists decides.**  `$(wildcard ...)` looks for a staging directory
  when a makefile is parsed and drops the whole chain of a package when it is
  there.  The directory is created at the *start* of an installation.
* **Stamps in the wrong order** would lose packages or publish half of one:
  `.post-install` is touched after an installation and removed after the
  copy to `sysroot` and `rootfs`.
* **Faults anywhere**: a command fails while other jobs run, make is killed, a
  transfer is truncated, tar reads a truncated copy.
* **make -j**: packages interleave at the granularity of their commands.
* **Recorded knowledge goes stale**: `.cmd` files describe a target that a
  fault may have changed since.
* **A cache with recursion**: `SYMBOL_VALID` is set before a value is
  calculated; a choice and its values call each other's calculation.
* **Answers that move others**: one answer changes the range of another symbol.
* **Hand-edited files**: any combination of lines for the values of a choice.
* **A dialogue over a moving tree**: an answer makes entries appear behind the
  place the walk has reached; `check_conf` starts it over until nothing is new.
* **Rewriting in place**: expressions are simplified while `menu_finalize` moves
  entries and hands conditions down, and rests on pointers into a list it edits.
* **Replacing files by renames**: kill, full disk and other runs of `install`
  between any two system calls.

## 3. Plan

1. *Done.*  `PackageLife` and `Package`, the refinement and its proof;
   `Rebuild` and its proofs; `Kconfig`, `Symbol`, `Confdata`.
2. *Done.*  `ConfigFile` and `Conf`, the dialogue and its termination.
3. *Done.*  `ConfWrite` with kills and full disks, and its proofs.
4. *Done.*  `Expr`, `MenuTree`, `DepCheck` and `Menu`, from statements to the
   finalized tree.
5. *Done.*  `Install`, concurrent runs with faults and retries.
6. *Done.*  Proofs about packages, targets, saved files and `Install`.
7. *Done.*  Proofs about kconfig: the recursion of `Symbol` never re-enters a
   symbol, and the values it keeps are those `Meaning` defines.
8. *Done.*  Proofs about `Conf`: no question is left, a rule is kept, a walk
   without answers moves nothing; of `Confdata`, that answers hold and that what
   is saved is read again.
9. *Done.*  Proofs about `MenuTree` and `DepCheck`: no entry is lost, the cycles
   are named.
10. Open.  The descent of the top makefile, composed of one `PackageLife` per
    directory; strings, numbers and ranges in `symbol.c`; the linking rules of
    `builtin.mk` and `library.mk`; the size arithmetic of `ubifs.mk`.

`Symbol` and `ConfigFile` are joined in `Confdata` by EXTENDS.  `Conf` rests on
what `Confdata` is checked for: it takes values from `Meaning`, which
`KeptIsMeant` says symbol.c computes, and `KeptIsTheMeaning` proves.
`PackageLife` is what `Package` is proved to implement.  `Menu` is `MenuTree`
and `DepCheck` with the conditions of `Expr`: each of its steps is an action of
one of the two together with what it does to the conditions.

## 4. Modules

### PackageLife

The promise, per package: `Install` once all dependances are published, then
`Publish`, never back.  `LifeFairness` adds that each happens.

### Package

One directory of packages.  The disk (`tree`, `copy`, `dwl`, `dest`, `marked`,
`sysroot`) survives; the rest is a running make.

| TLA+ | Code |
|---|---|
| `tree[p]` | `$(src)/<pkg>[-<version>]` |
| `copy[p]` | `$(BUILD_DOWNLOAD_PATH)/<archive>` |
| `dwl` | stamps `$(obj)/.<pkg>.dwl` |
| `dest[p]` | `$(packagesdir)/<pkg>[-<version>]`: absent, partial or complete |
| `marked` | `.post-install` in that directory |
| `sysroot[p]` | the package's files below `$(sysroot)` and `$(rootfs)` |
| `missing` | what `$(if $(wildcard $(sprj-destdir)),,$(sprj-destdir))` saw at parsing |
| `Invoke` | make is started and parses; `Succeed`, `GiveUp`: it ends |
| `SkipDownload`, `StartDownload`, `FinishDownload`, `RefuseCopy` | rule of the `.dwl` stamp |
| `StartConfigure` ... `FinishBuild` | recipes of `<pkg>-configure`, `<pkg>-build` |
| `StartInstall`, `FinishInstall`, `TouchPostInstall` | recipe of the staging directory |
| `StartPublish`, `FinishPublish`, `RemovePostInstall` | recipe of `<pkg>` |
| `BreakDownload`, `BreakPackage`, `Kill` | a command fails; make and its jobs are killed |

Each recipe is cut where another job or a fault can observe the disk.  After a
failure make starts nothing new and waits for running jobs (`phase =
"failed"`).  A serial make opens one chain at a time, since a prerequisite's
own prerequisites are built before the next prerequisite; with `-j` any chain
may be opened.  `install` differs from the default goal only in that
prerequisites other than packages are added and that the download stamps come
with `subdir` makes, so the model has the goals `build` and `download`.

### Rebuild

One compiled target.  `changed` is what really differs from what the compiler
read; `newer` is what the time stamps show: keeping them apart lets the model
express a target that looks up to date and is not.  `Forced` and `Suffixed`
select the rule: `builtin.mk` (FORCE, and a `.cmd` file written under a name
that is not the one looked for) or the single-file programs of `host.mk`
(neither).  The developer edits headers, the source (which may then include
other headers) and the command line between makes.  `ended` is a history
variable: the headers read for the last recipe that ended well.

A failed fixdep or a kill leaves a target that is newer than its `.cmd` file.
`OnlyNewHeadersAreMissed` says what that file is still good for: an edit of
the source, or of a header that some recorded compilation had read and the
target was made from, is noticed; only headers that joined since can be missed.
`MCRebuild` has two programs of host.mk, one which nothing parts from its `.cmd`
file and one which is parted; `PartedMissesOnlyNew` is the property of the second.

### Kconfig, Symbol, ConfigFile, Confdata

`Kconfig` is the constant tree after `menu_finalize`: `Prompt`, `Default` and
`Select` are derived from what is written as `menu.c` does it.  Expressions
are in disjunctive form, a set of conjunctions of literals, each an atom with
a map of tristates, so that no recursion is needed to evaluate them.
`Meaning` is the reference, written from the language: the value of each
symbol for what the user asked for.  A symbol is given its meaning after those
it needs (`Needs`: what its prompt, its selects and its defaults name; for a
choice also what its values need): level after level of `Rank`, as a function
on the levels, which is a form proofs can use.

`Symbol` is symbol.c as a stack machine.  A call of `sym_calc_value` is a
frame with a stage: `visible` (`sym_calc_visibility`), `reverse` (`rev_dep`),
`value` (the switch), `choose` (`sym_calc_choice`).  Before a stage reads an
expression, every symbol in it that is not valid is called (`Recurse`); the
order among them is left open, so that each run covers every order in which
the program's hash table and expressions could visit them.

| TLA+ | Code |
|---|---|
| `user`, `wish`, `fresh` | `user.tri`, `user.val` of a choice, `SYMBOL_NEW` |
| `valid`, `tri`, `pick` | `SYMBOL_VALID`, `curr.tri`, `curr.val` of a choice |
| `visible`, `least`, `modulesVal` | `visible`, `rev_dep.tri`, `modules_val` |
| `stack` | the C stack |

`ConfigFile` says what the lines of a `.config` do to user values, choices and
`SYMBOL_NEW`; `Confdata` and `Conf` share it.

`Confdata` adds `.config`: `StartLoad`/`EndLoad` are `conf_read`, with the
calculation of every symbol between them, `StartSave`/`EndSave` are
`conf_write`, `Set` is an answer of the user, allowed when the front end has
calculated the symbol to show it.  Every initial file is considered.
`SYMBOL_WRITE` (this version writes every symbol, confdata.c:441-444) and
`SYMBOL_CHANGED` decide no value and are left out.

### Conf

The program `conf` from reading `.config` to writing it, in its eight modes.

| TLA+ | Code |
|---|---|
| `todo` | the C stack: calls of `conf`, `check_conf`, `conf_sym`, `conf_choice` still to come, the next one first |
| `mode`, `terminal`, `top`, `found` | `input_mode`, `valid_stdin`, `rootEntry`, `conf_cnt` |
| `user`, `wish`, `fresh` | as in `Symbol` |
| `now` | the values shown: `Meaning` of what was asked |
| `Menus`, `MenuConfigs`, `Titled` | entries that are only a menu, options declared by `menuconfig`, and both: what has a `P_MENU` prompt (zconf.y:165-173) |
| `Start` | options, `conf_read`, the first mode |
| `Enter`, `Childs` | `conf`: an entry and, behind it, what hangs below |
| `ConfSym`, `ConfChoice`, `Settle` | a question and the default answer |
| `Check`, `Again`, `Write` | `check_conf`, the loop of `main`, `conf_write` |

Values are recalculated by each step that sets something, and once after
`conf_read`.  For choices that are optional or tristate the program differs
there: it goes on showing the value it loaded until something is set (section 7),
where the model has the recalculated one.  The choice of the run is neither, and
`NothingMoves` is about such choices only.

A question that gets an answer the code refuses is asked again, which changes
nothing; in the model it has no step.  Answers are any the code accepts, so
each run of the model covers every user.  The history variables `started`,
`before`, `open` and `answered` exist for the properties alone.

### ExprTests, Expr, MenuTree, DepCheck, Menu

`ExprTests` has the forms of expressions, their values and what becomes of two
tests of one symbol; `Expr` the rewriting functions of expr.c, as recursive
operators.  The code passes the address of a pointer and rewrites what it points
to; a slot is modelled as the path from the root of the expression, so that the
two slots `expr_eliminate_dups1` compares may lie in one expression, as they do
there.

`MenuTree` is a parser's run, any sequence of statements, and then
`menu_finalize`, with one step for each thing its loops do:

| TLA+ | Code |
|---|---|
| `entry`, `list`, `next`, `parent` | `struct menu` of each entry, numbered as declared |
| `current`, `last` | `current_menu`, `last_entry_ptr` |
| `open`, `scanned`, `fileOf` | the files being read, `FILE_SCANNED`, `menu->file` |
| `stack` | the calls of `menu_finalize`: its parent, its loop, where that is |
| `Link`, `End`, `Source`, `EndFile` | `menu_add_entry`, `menu_add_menu`; `menu_end_menu`; `zconf_nextfile`, `zconf_endfile` |
| `Each`, `EachDone` | the loop that finalizes the entries below (menu.c:256) |
| `Gather`, `GatherDone` | the loop that moves what follows an option below it (menu.c:263-288) |
| `Dissolve` | the loop that empties blocks without a prompt (menu.c:290-324) |
| `Return` | the end of a call; in its caller `menu->parent = parent` |

What `Gather` may take is open in `MenuTree`: whatever the conditions say, the
links have to stay a tree.  `DepCheck` is `sym_check_deps` on any graph of
dependencies, from each symbol in any order of the hash table; `path` is its
recursion.  `Menu` adds the conditions to both: `menu_add_dep`, what is handed
down before a menu's entries are finalized, `Belongs`, which decides what
`Gather` takes, and the graph `DepsOf` that `sym_check_deps` then walks over.  A
statement is read with its options as one step; `Statements` says which there
are.  `Expr` and `Menu` use RECURSIVE operators and stay with TLC; the other
three do not, and are what is proved about.  A behaviour of `Menu` is, variables
of the others aside, one of `TreeSpec` and one of `CheckSpec`, with stutters.
An intermediate result that is used more than once is handed on as the parameter
of a local operator, so that it is written, and evaluated, once.

### ConfWrite

`conf_write` as the files see it: `Open`, the header's two steps, `Fill`,
`RenameHeader`, `Keep` (the old file to `.old`) and `Replace`, for `.config`
and for names given to mconf.  What a file says is the number of the save that
wrote it, and whether it is whole.  `KillConf` may strike between any two steps; a
full disk cuts a file, or the old file cannot be renamed, and nobody notices.

### Install

Runs of `install` for files (with `-D`, `-b`, `-p`) and directories, each one
cut at the system calls another run could observe: `mkdir` or `stat` of each
component in `make_path`, the choice of the backup's name, its `rename`, the
`unlink` of an old target, `open`, `write`, `chmod`, and the way back from a
failure.  Names are links to inodes, so that a run that holds a file open
writes to it also after another took its name.  `Again` is the next
`make install`, for what has failed.

`MCFiles` puts `ConfWrite` and `Install` into one run: its variable `program`
says which of the two a behaviour is of.

## 5. Runs

| Run | What it asks | Result |
|---|---|---|
| PackageSerial | serial make, two archives, two faults outside installation: `ConfiguredIsFetched`, `StampIsFetched`, `EventuallyPublished`, `ImplementsLifeFairly` | holds, 396 states |
| PackageParallel | `-j2`, three packages by git, tar and file, one fault outside installation: `TypeOK`, `NothingLost`, `NeedsArePublished`, `SuccessMeansPublished`, `ImplementsLife` | holds, 7984 states |
| PackageFaulty | faults in every step, kept copies, a build that writes the staging directory: `MarkedIsInstalled`, `UnmarkedOnlyWhenPublished` | holds, 3043 states |
| Rebuild | two host programs (no FORCE); one with one command line, compiler failure and interrupt: `SuccessMeansFresh`, `NoNeedlessCompile`; one with two command lines and all faults: `PartedMissesOnlyNew` | holds, 372992 states |
| ConfdataTree | MODULES, dependency, defaults, select; every file, two answers: `KeptIsMeant`, `SelectIsLowerLimit` | holds, 3.0 million states |
| ConfdataChoice | bool choice with a conditional default and value: `TypeOK`, `NoReentry`, `SavedIsReread`, `KeptIsMeant` | holds, 3.0 million states |
| ConfdataDriver | tristate choice, values depend on an option: `ChoiceIsExclusive`, `AnswerHolds` | holds, 4.9 million states |
| Dialogue | eight modes, a choice, a menu, a menuconfig, a select, entries that appear behind the walk: `TypeOK`, `AllAsked`, `UnaskedIsUnchanged`, `RuleIsKept`, `DialogueEnds` | holds, 97164 states |
| Menus | every sequence of three statements and files: `TypeOK`, `TreeIsKept`, `DependencyIsKept`, `SubmenuFollows`, `CyclesAreNamed` | holds, 190235 states |
| Files | conf_write: `SavedIsSomewhere`, `OneBeforeIsKept`, `HeaderFollows`; three runs of install: `NoFalseFailure`, `OldIsKept`, `SuccessIsInstalled`, `InstallEnds` | holds, 487948 states |
| AnsweredNo | `allnoconfig` over an option that is selected when it is met: `AllAreAnsweredNo` | violated: section 6 |
| PackageLost | serial make, one fault during an installation: `SuccessMeansPublished` | violated: the finding of section 6 |

## 6. Findings

What the code does and a line of the repository says otherwise:

| Run | What happens |
|---|---|
| PackageLost | An installation fails once.  Its staging directory exists, so the next make considers the package done, finds no `.post-install`, publishes nothing and succeeds (project.mk:109, 171). |
| AnsweredNo | `usb` is met while `extra` selects it: it cannot be changed, no answer is asked for and the value shown, `y`, is set as the user's (conf.c:79).  Then `core`, which `extra` depends on, is answered `n`; nothing selects `usb` any more, and `y` is saved, though `n` is open to it.  scripts/kconfig/Makefile:101 says "New config where all options are answered with no". |

More of the kind shows when the constants of a run are changed; each of these
was seen in a counterexample of the property named.  The runs hold because their
constants leave these cases out:

| Change | Property | What happens |
|---|---|---|
| PackageSerial with `KeepCopy = TRUE` | `EventuallyPublished` | With `D=<dir>` a truncated archive stays among the kept copies and is preferred for ever; tar refuses it in every make (download.mk:1-5). |
| PackageSerial with `Method` git and a kill during `download` | `StampIsFetched` | A clone that git ends itself is removed; one killed with the host stays and is taken for whole. |
| Rebuild with `Commands = {O1, O2}` | `SuccessMeansFresh` | Host programs have no FORCE: a change of flags rebuilds nothing (host.mk:170), though include.mk:162-163 says commands are compared. |
| ConfdataTree with `Asks <- HiddenAsks` | `DependsIsUpperLimit` | A promptless tristate takes its default `y` although its dependency is `m` (symbol.c:316; kconfig-language.txt:99 calls it the upper limit). |
| Menus with `Statements <- NegatedStatements` | `SubmenuFollows` | `menu_finalize` compares the parent's condition by `expr_trans_compare`, which turns `!T != n` into `T = n` (expr.c:912-913): an option that needs `!T` with `T` at `m` is put below one that needs `T=n`. |
| Files with the directory of `lib` set to `usr/bin` | `NoFalseFailure` | Two runs make the same last component: both see that it is missing, the second `mkdir` fails and the run with it (makepath.c:305; for leading components the code allows for this). |
| Files with `backup = "simple"` for `conf` | `OldIsKept` without its condition on the kind of backup | Killed after its rename and run again, `install -b` takes the half-written file for the old one and overwrites the copy. |
| Files with two jobs for one numbered target | `OldIsKept` | Both choose the same number; the second rename replaces the first copy. |
| PackageSerial with `Method <- LibFile` | `StampIsFetched` | A plain file is half fetched; the next make finds it, skips the fetch and stamps it (download.mk:14, 70). |
| Rebuild with `Forced = TRUE`, `Suffixed = TRUE` | `NoNeedlessCompile` | `.foo.cmd` is written, `.foo.o.cmd` is looked for: every make compiles every object again (include.mk:19, scripts/Makefile:157).  What is always compiled is never stale, which is all that `ForcedIsFresh` says of such objects. |
| Rebuild with `Faults = {"kill"}` | `SuccessMeansFresh` | A compiler killed in the middle leaves a truncated host program that is taken for up to date. |
| ConfdataChoice with `Selects <- MemberSelects` | `SelectIsLowerLimit` | Selecting a value of a choice has no effect while the choice is shown (symbol.c:210). |
| ConfdataTree with `Depends <- BoolDepends`, `Tristate = {core, net}` | `SelectIsLowerLimit` | A bool at `y` by way of an `m` dependency selects only `m` (menu.c:251). |

Seen while modelling, in the code and no property's subject: `install -D` with
a missing directory installs under the last component of the *source*'s name
(install.c:464-486); with `-p` the mode given is replaced by 0755, and `-z` is
passed over; `check_conf` enters only the first child below a choice value, so
two new options there make `oldconfig` start over for ever (conf.c:396); killed
between the two renames of `conf_write`, the next `conf` starts from no
configuration without a word, since `.config.old` is never read; a directory or
a name with a slash at its end leaves no `.old`; a failing rename of the header
goes unnoticed; `set_yes` promises a tristate only that it is not `n`.

## 7. Bounds and fairness

*Bounds.*  Two or three packages, one of which needs another: the properties
relate a package to itself, to one dependance or to the make as a whole.
`Jobs = 2` lets any two recipes overlap.  `MaxFaults` 1 or 2: the second fault
strikes the repair of the first.  `Breakable` names the steps in which faults
are considered; runs that leave out `install` say what holds apart from the
finding PackageLost.  `Rebuild` needs no bound: its state is finite.  Two
headers let one enter and one leave the includes in the same edit; the second
program has two command lines so that `EditCommand` comes between the faults.  In
`Confdata`, four options and at most two answers (`MaxSets`), from every
content of the file; a violation by a stale value needs one answer, one by an
answer that moves another needs two.  The trees are the smallest that have the
construct in question; `MODULES` is a bool that depends on nothing, as in the
kernel (assumption `ModulesAssumption`), and Makeroot's own `Config.in` files
do not declare it at all, which is the case `Modules = None` of ConfdataChoice.

In `Dialogue` one tree holds the constructs that make a walk start over (a
choice value, a menu and an option that depend on an entry further on, and a
select from below a choice value) and an option declared by `menuconfig` with
another in its menu; `TreeFiles` leaves out the files that say `y` for the
selected option or `n` for the one that selects it, which start nearer the end of
the same walks, and those with a line for the option in the menu of the other.
In `Menus` three entries (`MaxEntries`) are what a move needs: an option, one that depends on it, and one that ends the submenu or
is moved out of an "if"; two orders of the hash table (`Orders`) let
`sym_check_deps` enter a cycle from either side.  In `Files` four saves
(`MaxSaves`) let two complete around one that is cut short; one full disk
(`MaxFull`) is what `OneBeforeIsKept` allows for; the second fault of `Install`
(`MaxFaults`) strikes the repair of the first; two of its three jobs make
directories below the same one, the third replaces a file.

*Fairness* is assumed in three runs.  PackageSerial: weak fairness on
each package's `Download` and `Chain` and on `End`: make does not idle while a
rule can run, and commands return.  Strong fairness on `Invoke("build")`: the
user runs make again as long as needed, also if `make download` is run in
between.  Dialogue: weak fairness of the program's step: it is sequential, and
whoever is asked answers sooner or later, at the latest by an end of input.
Files: weak fairness of each run of install, a process the system schedules,
and of `Again`: who sees a failed installation asks for it again.  Faults are
bounded and never fair.

*Deadlock* is checked in the runs of packages, targets and symbols, which never
stop: a make can always be started, a calculation can always go on.  Dialogue
and Menus are programs that end, and Files ends when the bound on saves is
reached or all is installed; there the check is off (`CHECK_DEADLOCK FALSE`),
and that the dialogue and the installations end well is what `DialogueEnds` and
`InstallEnds` say.  That the parser and `menu_finalize` end holds by
their shape: each statement is read once, and each recursion is over a smaller
expression, a shorter list, or what a rewriting has shortened.

*StampIsFetched and git.*  It is checked with archives.  A clone that git ends
itself is removed; one that is killed with the host stays and is taken for
whole, the mechanism section 6 tells of plain files.

*KeptIsMeant and the SYMBOL_NEW of a choice.*  It is not claimed of optional or
tristate choices: after reading a file that has no line for a visible value,
`conf_read` marks the choice as new (confdata.c:324) but keeps its value valid,
and any answer then makes an optional choice fall to `n`, a tristate one to
`m`.  Nothing in the repository says what is intended.  In `Conf`, where `now`
is `Meaning` at once, the same holds of what is shown and written before the
first answer: `UnaskedIsUnchanged` is checked with, and proved of, choices that
are bool and not optional.  `NoneIsLeft` and `RulesAreKept` name no such
hypothesis; of other choices they speak of the recalculated values.

## 8. Proofs

`PackageProofs`, for every set of packages, dependances, methods, number of
jobs and of faults:

* `TypeCorrect`: the type invariant, which also says that an idle make has no
  job left.  It is needed everywhere to know that no recipe is between two
  steps when make starts or ends.
* `SafeInv` strengthens `MarkedIsInstalled` with what holds *inside* the
  chain: a package whose chain is open is not marked, one whose recipe is at
  "publishing" or "published" is, one at "installed" has a complete staging
  directory, and one at "published" is complete in the sysroot.  It needs no
  assumption on faults.  From it follow `NoPartialPublication` and
  `PublicationIsRetried`.
* `LifeInv` adds, under `InstallIsSafe` (no fault during an installation, no
  build that writes the staging directory, the two ways to have a directory
  that exists and is not complete): an open chain has its dependances done, a
  package that parsing did not miss has its directory, what is in the sysroot
  came from a complete directory.  From both invariants follow `NothingIsLost`,
  `NeedsComeFirst`, `SuccessIsReal`, and `RecipesImplementLife`: under the
  mapping `stageBar` each step of `Package` is one `Install`, one `Publish` or
  a stutter.  PackageLost shows that the assumption cannot be dropped.

* `SerialConfigure`: in a serial make no package is configured before its own
  sources are there.  Between the prerequisites of `__build` make knows no
  order; what makes it true is that a job starts only when no other runs
  (`SerialSlot`) and that a download that is done has its stamp
  (`DoneIsStamped`).  With `-j` it is false: the hazard at scripts/Makefile:167.
* `StampsAreTrue`: a `.dwl` stamp stands beside a whole tree, for archives with
  any fault and for every method if no fetch fails (`FetchIsSafe`).  `FetchInv`
  adds that an unfinished tree or copy of what tar does not check is one that
  is being fetched, and that a running make still fetches only what has no
  stamp.  Section 6 shows the plain file, the hazard at download.mk:26 the clone
  that break it without the assumption.

`RebuildProofs`, for every set of headers, command lines and faults:

* `TypeCorrect`.
* `ForcedIsFresh`: with FORCE and a `.cmd` file that is never found, each make
  compiles, so success means fresh.  Invariant `Building`: between the
  compiler's end and the end of the recipe the target is fresh.
* `DescribedIsFresh`: without FORCE it takes `NoOrphan` (the `.cmd` file is
  found; no kill and no failing fixdep) and `CommandSeen` (FORCE, or only one
  command line).  Invariant `HostInv`: whenever make starts, an existing
  target is described by its `.cmd` file, and whatever changed since is newer.
  The change of flags and the kill of section 6 show that both conditions are
  needed.
* `RecordedIsNotMissed`: without `NoOrphan`, if only the `.cmd` file is found
  under its name, `OnlyNewHeadersAreMissed`.  `PartedInv` keeps two things apart:
  the `.cmd` file names what the last recipe that ended had read (`ended`), and a
  whole target has nothing changed that is not newer, whoever made it.
* `CompiledForAReason`: under `NoOrphan` alone, a target is compiled only if it
  does not reflect the tree.  `KnownInv` is the converse of `HostInv`: the
  `.cmd` file names just what the compiler read, and no prerequisite looks newer
  that did not change.

`ConfWriteProofs`, for every set of configurations and any number of saves, of
kills and of full disks:

* `TypeCorrect`.
* `NoConfigurationIsLost`.  `SavedIsSomewhere` is not inductive: the new file
  must be known to be whole before it replaces the old one.  `SaveInv` adds
  that, and that a configuration that exists holds its last save or a newer
  one; only while it is missing, between the two renames, is the copy needed.
* `OneBefore`: one full disk, in saves that run to their end and can rename the
  old file, is survived too.
  The full disk may come in any save, so `BeforeInv` says two things of each
  configuration: something good is left, and until the truncated file has
  been renamed everything is as good as without the full disk (`InPlace`).
* `HeaderIsNotOlder`.  `HeaderInv` follows the number of the save through the
  steps: the header is renamed before the configuration, so at "keep" and
  "replace" it bears the number of the save.  It needs no assumption on faults.

`InstallProofs`, for any number of runs of `install`, with any commands
(`Arguments`: directories are not empty, the files there at first are no
backups) and any number of faults and repetitions, if no two runs install one
file (`Apart`; section 6 shows two jobs with one target):

* `BaseInv`: every name is a link to one inode and no inode has two names, a run
  has renamed or opened nothing but its target and a backup of it.  This is what
  keeps the runs apart, and each proof below rests on it.
* `OldsAreKept`.  `OldIsKept` says that an old file is somewhere; `OldInv` says
  where: under a name of its family at which nobody writes.  `Careful` is why:
  with numbered backups a run that is about to open its target has moved the
  file away, and the number it took is above all others, so that the rename
  overwrites nothing, also in the next run after a kill.  It asks that every
  run that may hit an old file keeps numbered backups (`Numbered`).
* `SuccessIsTrue`.  `WayInv` follows `make_path`: what it has passed exists, and
  a directory once made stays; `Installed` follows the file from `write` to the
  end.  It asks that no file has the name of a directory to be made
  (`NoFileInWay`): make_path would take it for one that is there.
* `FailuresAreReal`: a run fails only of a fault that befell it.  It asks that a
  directory that is missing is the last component of one run only (`OwnDirs`,
  whose counterexample section 6 shows) and that a file finds a directory to be
  put into, and none in its place (`Room`).

`KconfigProofs` has the lemmas about the operators of `Kconfig` and
`ConfigFile` that the others need: what `Eval` returns, that it depends on the
atoms only, the range of `Promote`, `FirstDefault` and `Gathered`, what `Meaning`
depends on, that it is of the symbol's type and, where symbols have ranks, a
fixed point (`MeaningFixed`) and the only one (`MeansNoOther`); and, since the
library's induction cannot be used, that a set of numbers with 0 and each
successor has all (`Counting`).

`SymbolProofs` begins with what holds for every tree, also one with circular
dependencies, every file and every order of calculation:

* `NoReentryEver`.  The invariant `StackInv` adds to `NoReentry` that every
  call on the stack is for a symbol that is marked valid; a call is made only
  for one that is not, and clearing the marks empties the stack.  That the mark
  is set before the calculation, not after it, is what makes it true.
* `Typed`: values stay tristates, those of a bool never `m`, a choice is only
  ever on a value of its own.  `Limits` says it of the user's answers as well.

Then it proves what the values in the cache are, for every tree, file, order of
calculation and number of answers.  `SYMBOL_VALID` means too little for
that: a symbol is valid already while it is calculated.  `Settled` are the valid
symbols that are on no call of the stack, and an expression is `Fixed` if it
names only those.  The invariant `CacheInv` says

* of a settled symbol (`SymbolOK`) that its visibility, its lower limit and its
  value are what the formulas of symbol.c give for the present values of
  what they name, and that these are settled too;
* of a call (`CallOK`) the same for the stages it has passed; of a choice in
  `sym_calc_choice` that the candidates passed so far are not to be had;
* of two calls that the inner one is for a symbol of lower rank (`Below`).

It is preserved because a step changes the values of one symbol only, that of
the call on top (`Quiet`), and nothing settled has an expression that names it.
This needs a rank: `Acyclic`, or `Levelled` for a finite tree.  `sym_check_deps`
reports every other tree (`CyclesNamed` proves it).  A choice and its values refer to
each other and are ranked all the same: sym_calc_choice asks for the visibility
of each value, which names the choice, but the choice is valid by then and is
seen at `y` (`Among`), so that no call comes back to it.

* `OneIsBuilt`, `SelectedIsAtLeast` and `LowerLimitHolds` follow from the
  invariant.  Hypotheses, and what stands behind them: a value of a choice has no
  default (`ValuesArePlain`; menu.c:302 warns) and is tristate only in a
  tristate choice (`ValuesAreOfType`; menu.c:215-222 makes it so); `MODULES` is
  the user's (`ModulesIsPlain`).  `LowerLimitHolds` further excludes what
  section 6 shows: values of a choice that are selected (`NoValueSelected`) and
  selectors that depend on something (`SelectorsAreFree`).  Without the last,
  `SelectedIsAtLeast` holds, which bounds what is selected by the selector's
  dependency as well.
* `KeptIsTheMeaning`: what is kept is `Meaning`.  The lemma on levels says that
  `Meaning` is a fixed point: it gives each symbol the formula of the language
  applied to the meaning of what the symbol needs, and at the level of its
  rank, so that later levels change nothing.  A settled symbol has the formula
  of symbol.c applied to settled values.  By counting up the ranks both agree,
  first for `MODULES`, whose value decides what a tristate is for all others.
  The two formulas differ for choices: symbol.c keeps the value of a choice that
  was calculated before an answer cleared nothing, the language asks for it
  anew.  `ChoiceInv` closes the gap: a choice that is not at `y` cannot be seen
  or has no value to fall on.  That is so for choices that are bool and not
  optional (`BoolChoices`); of others section 7 tells why it is not.
* `AnswersHold`, under the same hypotheses.  It joins two calculations, one
  before the answer, one after.  The invariant `AnswerInv` says that the answered
  symbol *means* its answer, now and until a file is read.  That an answer makes
  it so (`SetMeansIt`): what the symbol needs has lower rank, is asked the same
  and so means the same as before (`BelowSame`); hence the limits the answer was
  tested against are those it is taken with.  If the answer picks a value of a
  choice, that choice is of lower rank and does move; its first candidate is
  then the value, which can be seen because it could before.
* `SavedIsKept` joins the calculation before a save to the one after a load, with
  `ValuesAreOfType` besides.  `RereadIs` is its heart: what a file of meant
  values loads as, means those values.  Options, since limits are
  idempotent; a choice is not in the file at all: whether it is "y" does not
  depend on what was asked (`ChoiceLimits`), at most one of its values was saved
  as "y" (`ValuesMean`), and that one is what `Gathered` wishes for
  (`GatheredOne`).  The assignment saved therefore meets the equations of
  `Meaning` for what was loaded, and only one does (`MeansNoOther`).

`ConfProofs` is about the dialogue, for every tree of menus, every `.config`, mode
and sequence of answers, if the tree has an end and hangs together (`Hangs`, what
menu.c builds: each node but the root is in the list of one that is higher):

* `Typed`.  The recursion of `conf` and `check_conf` is a list of tasks, so the
  invariant `TypeInv` also says which node a task can be for: `settle` and `pick`
  come to choices only.  The value picked is of the choice because the list of a
  choice has only its values.
* `NoneIsLeft`: when .config is written nothing that can be seen and set was
  never asked about.  The invariant `WalkInv` is about the last walk of
  check_conf, from the moment `found` was cleared: as long as nothing was found,
  only that walk has tasks, so no value moves, and there is a set of nodes
  visited, all of them known, whose children are visited or pending.  At the end
  nothing is pending, and everything seen was visited, since whatever is seen
  hangs below what is seen (`SeenAbove`).
  This last step needs `Nested`: what is in a menu has the condition of the menu,
  which menu_finalize adds, and what is below a symbol needs that symbol (or has
  the condition of its prompt), and those further up as well.  Menu.c only makes
  sure of the *nearest* symbol.  Where C needs B, B is asked below A, and A is "n"
  and hidden, a B that is selected leaves C to be seen and set, and check_conf,
  which turns back at A, does not come to it.

* `RulesAreKept`.  `RuleIsKept` speaks of limits at the end, the answers were
  given under others.  The invariant `Ruled` keeps what does not move: an option
  that is not fresh any more has, from "set_yes", a user value other than "n", and
  from "set_no" none, if nothing gives it one (`Free`).  It holds also of what is
  passed over and so set to the value it shows: `conf_sym` is only called for
  what was seen just before (`Headed`), and what is seen and cannot be changed is
  not "n" (`PassingIs`).  `NoneIsLeft` says that nothing is fresh at the end, and
  `NowMeans`, that the values shown are the meaning of what was asked, turns user
  values into values.  The clause about "set_no" names only what is free:
  AnsweredNo of section 6 came out of the attempt to prove it of all.
* `NothingMoves`.  While nothing is answered, `conf_sym` and `conf_choice` still
  set whatever they pass to the value it has, which takes it from the fresh
  ones and pins the wish of a choice.  `PinningKeeps` is the reason why it is
  harmless: the values there were still meet every equation of `Meaning`, and
  only one assignment does (`MeansNoOther`, by counting up the ranks).  For an
  option this is so because limits are idempotent (`LimitIs`); for a value at
  "y" because its choice has fallen on it (`ChosenIs`), because the
  limits of the choice only grow with what is asked, and because
  the values that lose their freshness with it have no default (`ValuesArePlain`).
  At a choice passed over, what it has fallen on is visible, so the loop of
  `conf_choice` finds it (`PassedIs`; `ValuesBelow` is menu.c:290-312).  It is
  stated of choices that are bool and not optional (`BoolChoices`), for which
  `KeptIsTheMeaning` ties the values of the model to those symbol.c shows.

`MenuProofs` is about the tree of menu entries, `sym_check_deps` and the joining
of tests.  Of the tree, for all statements, files and numbers of entries, and
whatever `menu_finalize` finds to belong below an option:

* `TreeTyped`: links lead to entries or end, what is added next is linked to an
  entry that was declared, a call of `menu_finalize` is for an entry.
* `TreeKept`.  `TreeIsKept` speaks of a walk, which is recursive, and only of
  the time before and after `menu_finalize`.  To reason about it by arithmetic,
  the entries are numbered as declared, which is the order the walk must keep,
  and `u[n]` is the last entry a walk meets before it leaves `n`.  `Shape` says
  what makes such links a tree: what is below `n` begins at `n + 1`, what
  follows it at `u[n] + 1`, and parts are nested.  That a walk over a `Shape`
  meets all is a lemma, by counting through the entries (`AfterIs`).  While
  `menu_finalize` runs, `parent` and the links disagree: an option that is
  gathering is the parent of entries still linked as if they followed it.
  `TreeInv` therefore says of a second parent, where each entry is linked
  (`Placed`), that it has a `Shape`, and of each call on the stack how far it is
  and what it has gathered so far (`Held`).  Moving entries below an option,
  closing that list and emptying a block each turn one `Shape` into another.
  The loops read `menu->next` after the call for `menu`; what that call changes
  of it is within the `Shape` of the caller.

Of the check, for every graph of dependencies and every order:

* `CyclesNamed`.  `CyclesAreNamed` has no induction in it: a set in which each
  member depends on a member has a cycle, and what a symbol reaches is in every
  set that is closed under dependencies.  `CheckInv` is the invariant of a
  depth-first search: the calls on the path each follow a dependency; what a
  symbol depends on that is over and was not named is over as well (`Behind`);
  and of those no set is without a way out (`Acyclic`).  While a cycle is
  reported, the symbol met again is on the path and the innermost call reaches
  it (`Returning`); each call on the path reaches the inner ones (`Inwards`), so
  whatever is named on the way back is on a cycle.  A symbol whose check breaks
  off to report before it has come to its other dependencies is named itself,
  which is why leaving them unvisited does no harm.

And of two tests of one symbol:

* `JoinsAreExact`: what `expr_join_or`, `expr_join_and` and the comparisons in
  `expr_transform` put in their place has the same value, for every setting of
  the symbols.  It is what `DependencyIsKept` rests on where expressions are
  shortened; that the recursion of `Expr` applies it at the right places is
  only model-checked.

The trees of all runs that check these properties meet the hypotheses, except
that the tristate choice of ConfdataDriver is, of course, not among
`BoolChoices`.  `PartedMissesOnlyNew` is `OnlyNewHeadersAreMissed` of a second
instance of `Rebuild`, with `Suffixed` false as `RecordedIsNotMissed` asks.

The constants' assumptions used are `PackagesAssumption`, `RebuildAssumption`,
`ConfWriteAssumption`, and of kconfig `SymbolsAssumption`,
`ExpressionsAssumption`, `ModulesAssumption`, `UnsetAssumption` (no line is not
a value), `SetsAssumption` and `TreeAssumption`; `MenuAssumption`, and
`SymbolsAssumption` of `ExprTests`.  TLC
evaluates all in each run of their modules.  What else a theorem assumes stands
in its statement.

*Only model-checked*: liveness (`EventuallyPublished`,
`ImplementsLifeFairly`, `DialogueEnds`, `InstallEnds`), since fairness is
beyond the prover; `DependencyIsKept` and `SubmenuFollows`, which are about the
recursive functions of `Expr`; and, of tristate
choices, `AnswerHolds`: ConfdataDriver checks it of one, with the exception it
makes for choices nobody can see into, while `AnswersHold` is of bool ones,
which do not need the exception.

## 9. Not modelled

* The descent: the top makefile and `subdir.mk` run make once per directory and
  keep no state; `install.mk`, `toolchain.mk`, `tool.mk` and `android.mk` are
  rules with one command each; `library.mk` repeats the form of `builtin.mk`.
* `image.mk` and `ubifs.mk`: commands on loop devices and sizes of images.
* `mconf.c`, `gconf.c`, `qconf.cc`, `lxdialog`: screens over the calls of
  symbol.c and confdata.c that `Symbol`, `Confdata` and `ConfWrite` model; what
  they keep themselves is the position of a cursor.
* Of kconfig: string, integer and hexadecimal symbols and ranges, printing,
  memory, error recovery of the parser and its lexer, warnings.
* Of the install program: recursive copies, links copied as links, owners,
  `strip`, `gzip`, and its library of regular expressions, dates and quoting,
  vendored code that `install` links and mostly does not call.
* `rpcgen`, `ldd`, `fixdep`'s text processing, `docproc`: filters from one text
  to another.
* cvs and hg; several makes at once in one tree; edits while a make runs; the
  commands inside packages; packages, boards and patches, which are data.
* Details of what is modelled.  `Package`: the `.dwl` stamp is touched in the step
  that ends a transfer or an unpacking; between the two only an unfinished stamp
  could be seen, for the tree is whole.  `ConfigFile`: a file has one line per
  symbol, and those of a choice's values are taken in the order of the menus, in
  which conf_write writes them; other orders, which decide which of several `y`
  is kept (confdata.c:241-261), and lines that say a symbol twice are left out.
  `Menu`: the conditions of defaults (menu.c:240-254) are neither compared nor followed by
  `DepsOf`.  `Install`: that `install` looks again whether the directory is there
  and the `chdir` of `make_path` are one with its `stat`.
* `Config.in` trees with circular dependencies are reported (`Menu`) and do not
  make the recursion re-enter (`NoReentryEver`); what values they give is not
  asked.
