---------------------------- MODULE BrowserInstall ----------------------------
(***************************************************************************)
(* okf-http --install-browser: install_browser_assets of                   *)
(* crates/okf-http/src/lib.rs.  The packaged assets are staged beside the  *)
(* browser root and take its place in two renames, while people write      *)
(* files of their own there and others may install as well.                *)
(*                                                                         *)
(* A file is a name and what it contains: the number of the version it was *)
(* packaged with, or a greater number for each text people wrote.          *)
(***************************************************************************)
EXTENDS Integers, Sequences, FiniteSets

CONSTANTS
  Assets,      \* the packaged files
  Notes,       \* files that only people write
  LastVersion, \* of the program
  MaxInstalls, MaxTexts, MaxTroubles   \* bounds of the model

ASSUME InstallConstants ==
  LastVersion \in Nat \ {0} /\ MaxInstalls \in Nat /\ MaxTexts \in Nat /\ MaxTroubles \in Nat

VARIABLES
  browser,          \* the browser root
  staging, backup,  \* the directories of each installation beside it
  installs,         \* the installations
  written,          \* history: what people wrote and were not told to lose
  incidents         \* history: texts, failures, crashes, installations beside another

installVars == <<browser, staging, backup, installs, written, incidents>>

Versions == 1..LastVersion
Installs == 1..MaxInstalls

\* A directory: its files, and the version in its manifest, or 0.
NoDirectory == [files |-> <<>>, manifest |-> -1]
Bare == [files |-> <<>>, manifest |-> 0]
Packaged(v, m) == [files |-> [f \in Assets |-> v], manifest |-> m]

InstallInit ==
  /\ browser \in {NoDirectory} \cup {Packaged(v, 0) : v \in Versions}
  /\ staging = [n \in Installs |-> NoDirectory]
  /\ backup = [n \in Installs |-> NoDirectory]
  /\ installs = <<>>
  /\ written = {}
  /\ incidents = [texts |-> 0, failures |-> 0, crashes |-> 0, beside |-> FALSE]

Under(n, at) == n \in DOMAIN installs /\ installs[n].at = at
Active == {n \in DOMAIN installs : installs[n].at # "over"}
Advance(n, at) == installs' = [installs EXCEPT ![n].at = at]

\* Whether a call of the file system fails: the bound counts it.
Troubled(b) ==
  /\ b => incidents.failures + incidents.crashes < MaxTroubles
  /\ incidents' = IF b THEN [incidents EXCEPT !.failures = @ + 1] ELSE incidents

\* The assets that people seem to have changed: they differ from what the
\* manifest says, or without one from what is to be installed.
Modified(v) ==
  LET original == IF browser.manifest = 0 THEN v ELSE browser.manifest
  IN {f \in Assets \cap DOMAIN browser.files : browser.files[f] # original}

UpToDate(v) ==
  browser.manifest = v /\ \A f \in Assets : f \in DOMAIN browser.files /\ browser.files[f] = v

Own(d, f) == {[file |-> g, text |-> d.files[g]] : g \in f}

\* The assets are inspected.  Changes are protected unless they are forced.
Install(v, force) ==
  /\ Len(installs) < MaxInstalls
  /\ LET stop == browser # NoDirectory /\ (UpToDate(v) \/ (Modified(v) # {} /\ ~force))
     IN installs' = Append(installs, [at |-> IF stop THEN "over" ELSE "copy", version |-> v])
  /\ written' = IF browser # NoDirectory /\ force THEN written \ Own(browser, Modified(v)) ELSE written
  /\ incidents' = [incidents EXCEPT !.beside = @ \/ Active # {}]
  /\ UNCHANGED <<browser, staging, backup>>

\* The browser root, if there is one, is copied.
Copy(n) ==
  /\ Under(n, "copy")
  /\ \E failed \in BOOLEAN :
       /\ Troubled(failed)
       /\ staging' = [staging EXCEPT ![n] =
            IF browser = NoDirectory THEN Bare ELSE browser]
       /\ Advance(n, IF failed THEN "over" ELSE "stage")
  /\ UNCHANGED <<browser, backup, written>>

\* The assets and their manifest are written over the copy.
StageAssets(n) ==
  /\ Under(n, "stage")
  /\ \E failed \in BOOLEAN :
       LET v == installs[n].version
           d == staging[n]
       IN /\ Troubled(failed)
          /\ staging' = [staging EXCEPT ![n] =
               IF failed THEN NoDirectory
               ELSE [files |-> [f \in DOMAIN d.files \cup Assets |-> IF f \in Assets THEN v ELSE d.files[f]],
                     manifest |-> v]]
          /\ Advance(n, IF failed THEN "over" ELSE "aside")
  /\ UNCHANGED <<browser, backup, written>>

\* The browser root is renamed away, or replaced at once if there is none.
RenameAside(n) ==
  /\ Under(n, "aside")
  /\ \E failed \in BOOLEAN :
       /\ Troubled(failed)
       /\ IF failed THEN Advance(n, "over") /\ UNCHANGED <<browser, staging, backup>>
          ELSE IF browser = NoDirectory
          THEN /\ browser' = staging[n]
               /\ staging' = [staging EXCEPT ![n] = NoDirectory]
               /\ Advance(n, "over") /\ UNCHANGED backup
          ELSE /\ backup' = [backup EXCEPT ![n] = browser]
               /\ browser' = NoDirectory
               /\ Advance(n, "activate") /\ UNCHANGED staging
  /\ UNCHANGED written

\* The staged directory takes its place, which somebody may have taken.
ActivateAssets(n) ==
  /\ Under(n, "activate")
  /\ \E failed \in BOOLEAN :
       /\ Troubled(failed)
       /\ IF failed \/ browser # NoDirectory
          THEN Advance(n, "rollback") /\ UNCHANGED <<browser, staging>>
          ELSE /\ browser' = staging[n]
               /\ staging' = [staging EXCEPT ![n] = NoDirectory]
               /\ Advance(n, "discard")
  /\ UNCHANGED <<backup, written>>

\* A mutant: the backup is left where it is.
RollBackNothing(n) ==
  /\ Under(n, "rollback")
  /\ staging' = [staging EXCEPT ![n] = NoDirectory]
  /\ Advance(n, "over")
  /\ UNCHANGED <<browser, backup, written, incidents>>

\* The rollback puts the backup back, as far as it can.
RollBackInstall(n) ==
  /\ Under(n, "rollback")
  /\ \E failed \in BOOLEAN :
       /\ Troubled(failed)
       /\ IF failed \/ browser # NoDirectory THEN UNCHANGED <<browser, backup>>
          ELSE browser' = backup[n] /\ backup' = [backup EXCEPT ![n] = NoDirectory]
       /\ staging' = [staging EXCEPT ![n] = NoDirectory]
       /\ Advance(n, "over")
  /\ UNCHANGED written

\* The backup is removed; what a failure leaves of it is not counted on.
Discard(n) ==
  /\ Under(n, "discard")
  /\ backup' = [backup EXCEPT ![n] = NoDirectory]
  /\ Advance(n, "over")
  /\ UNCHANGED <<browser, staging, written, incidents>>

Killed(n) ==
  /\ n \in Active /\ incidents.failures + incidents.crashes < MaxTroubles
  /\ Advance(n, "over")
  /\ incidents' = [incidents EXCEPT !.crashes = @ + 1]
  /\ UNCHANGED <<browser, staging, backup, written>>

\* People write into the browser root.  While somebody installs, what they
\* write may go with the directory that is renamed away.
WriteText(f) ==
  /\ browser # NoDirectory /\ incidents.texts < MaxTexts
  /\ LET text == LastVersion + incidents.texts + 1
         kept == {w \in written : w.file # f}
     IN /\ browser' = [browser EXCEPT !.files =
             [g \in DOMAIN browser.files \cup {f} |-> IF g = f THEN text ELSE browser.files[g]]]
        /\ written' = IF Active = {} THEN kept \cup {[file |-> f, text |-> text]} ELSE kept
  /\ incidents' = [incidents EXCEPT !.texts = @ + 1]
  /\ UNCHANGED <<staging, backup, installs>>

InstallNext ==
  \/ \E v \in Versions, force \in BOOLEAN : Install(v, force)
  \/ \E n \in Installs : \/ Copy(n) \/ StageAssets(n) \/ RenameAside(n) \/ ActivateAssets(n)
                         \/ RollBackInstall(n) \/ Discard(n) \/ Killed(n)
  \/ \E f \in Assets \cup Notes : WriteText(f)

InstallSpec == InstallInit /\ [][InstallNext]_installVars
-----------------------------------------------------------------------------
Holds(d, w) == d # NoDirectory /\ w.file \in DOMAIN d.files /\ d.files[w.file] = w.text

(* A server that is started finds each packaged file, of the version the   *)
(* manifest names or as people changed it.                                 *)
RootIsWhole ==
  browser # NoDirectory /\ browser.manifest # 0 =>
    \A f \in Assets : f \in DOMAIN browser.files
                       /\ (browser.files[f] = browser.manifest \/ browser.files[f] > LastVersion)

(* What people wrote into the browser root while nobody installed, and     *)
(* were not told to lose, is in it after an upgrade to any version, be it  *)
(* refused, failed or complete.  After a crash or a second failure it may  *)
(* be in a backup only.                                                    *)
OwnTextsStay ==
  \A w \in written :
    /\ Holds(browser, w) \/ \E n \in Installs : Holds(backup[n], w)
    /\ Active = {} /\ incidents.crashes = 0 /\ incidents.failures <= 1 => Holds(browser, w)

(* An installation is all or nothing, whatever fails or runs beside it,    *)
(* and it loses no text of people's.  Of two installations at once the one *)
(* that found no browser root may take the place of the other's, with what *)
(* people had there, so the second part is about one at a time.            *)
InstallIsSafe == RootIsWhole /\ (~incidents.beside => OwnTextsStay)
=============================================================================
