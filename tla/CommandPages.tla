---------------------------- MODULE CommandPages ----------------------------
(* The command executor's pages.  CmdExecutor keeps a page's commands and its *)
(* name in two vectors that only their indices relate, the panel shows a tab  *)
(* for each page and passes the tab's index back, and every edit that changes *)
(* the layout is saved to a temporary file and loaded again.                  *)
(*                                                                            *)
(* XmlCommandLoader::Load replaces the pages but appends to the names, so the *)
(* two agree only on a prefix, and only as long as nothing but that prefix is *)
(* edited.  A page is represented by the name the user knows it by, which     *)
(* goes with its commands wherever they go; icons are handled as names are.   *)
EXTENDS Naturals, Sequences

CONSTANTS
  Names,    \* names that page attributes and the rename dialog may hold
  MaxPages, \* bound: pages, 255 in the code (uint8_t)
  MaxNames, \* bound: names that reloading has piled up
  MaxLoads  \* bound: loads of Cmds.xml in one run of the program

NewPage == "New Page"
DefaultPages == <<"Board", "Linux VM">>

ASSUME PagesAssumption ==
  /\ {"New Page", "Board", "Linux VM"} \subseteq Names
  /\ MaxPages \in Nat /\ MaxNames \in Nat /\ MaxLoads \in Nat

VARIABLES
  pages, \* m_Commands
  names, \* m_CommandPageNames
  tabs,  \* how many tabs the notebook has
  file,  \* Cmds.xml
  loads  \* loads of Cmds.xml since the program started that replaced the pages

vars == <<pages, names, tabs, file, loads>>

(* What a file amounts to for Load: how many pages it declares, the names of *)
(* those that have one, and how many of them can be read to their end.  A    *)
(* page that cannot, or that has no name, makes Load throw; one that is not  *)
(* there ends it.                                                            *)
Document(declared, named, whole) ==
  [kind |-> "pages", declared |-> declared, named |-> named, whole |-> whole]
NoFile == [kind |-> "missing", declared |-> 0, named |-> <<>>, whole |-> 0]
Malformed == [kind |-> "malformed", declared |-> 0, named |-> <<>>, whole |-> 0]
NoPages == [kind |-> "no pages", declared |-> 0, named |-> <<>>, whole |-> 0]
Written(saved) == Document(Len(saved), saved, Len(saved))
DefaultFile == Written(DefaultPages)

Edited ==
  {NoFile, Malformed, NoPages} \cup
  {d \in {Document(declared, named, whole) : declared \in 0 .. MaxPages,
            named \in UNION {[1 .. n -> Names] : n \in 0 .. MaxPages}, whole \in 0 .. MaxPages} :
     Len(d.named) <= d.declared /\ Len(d.named) \in {d.whole, d.whole + 1}}

Insert(s, at, x) == SubSeq(s, 1, at) \o <<x>> \o SubSeq(s, at + 1, Len(s))
Erase(s, at) == SubSeq(s, 1, at - 1) \o SubSeq(s, at + 1, Len(s))
Prefix(s, n) == SubSeq(s, 1, n)

Init ==
  /\ pages = <<>> /\ names = <<>> /\ tabs = 0
  /\ file \in {NoFile, DefaultFile}
  /\ loads = 0

-----------------------------------------------------------------------------
(* Files.                                                                  *)

(* XmlCommandLoader::Load of a document d that holds pages: the pages are  *)
(* those d holds, called as they are there.                                *)
Load(d) ==
  CASE d.kind = "malformed" -> UNCHANGED <<pages, names, tabs>>
    [] d.kind = "no pages" -> pages' = <<>> /\ UNCHANGED <<names, tabs>>
    [] OTHER -> /\ pages' = Prefix(d.named, d.whole)
                /\ names' = names \o d.named
                /\ tabs' = d.declared

(* ReloadCommandsFromFile of Cmds.xml: from the panel's constructor, its   *)
(* menu and the tray icon.  A default file is written first if there is    *)
(* none; when that fails, nothing happens.                                 *)
Reload ==
  LET d == IF file = NoFile THEN DefaultFile ELSE file
  IN /\ loads < MaxLoads /\ Len(names) + MaxPages <= MaxNames
     /\ Load(d)
     /\ file' = d
     /\ loads' = IF d.kind = "malformed" THEN loads ELSE loads + 1

(* XmlCommandLoader::Save calls each page by the name at its index.        *)
SavedAs(stored, called) == Prefix(called, Len(stored))

Save ==
  /\ file' = Written(SavedAs(pages, names))
  /\ UNCHANGED <<pages, names, tabs, loads>>

(* SaveToTempAndReload when the pages are stored and the names are called: *)
(* the pages come back as they were, their names once more at the end of   *)
(* the names, and the tabs are made anew.  It may fail to write the file.  *)
SaveToTempAndReload(stored, called) ==
  /\ pages' = stored
  /\ \/ names' = called /\ UNCHANGED tabs
     \/ /\ names' = called \o SavedAs(stored, called)
        /\ tabs' = Len(stored)
  /\ UNCHANGED <<file, loads>>

Room == Len(names) + MaxPages + 1 <= MaxNames
PageRoom == Room /\ Len(pages) < MaxPages

-----------------------------------------------------------------------------
(* What the panel's menus do for the tab with index i.                     *)

(* Mutants of AddPage: the name goes where the page was added from, or the *)
(* page gets none.                                                         *)
AddPageBefore(i) ==
  /\ PageRoom
  /\ IF i <= Len(pages)
     THEN SaveToTempAndReload(Insert(pages, i, NewPage), Insert(names, i - 1, NewPage))
     ELSE SaveToTempAndReload(pages, names)

AddPageUnnamed(i) ==
  /\ PageRoom
  /\ IF i <= Len(pages)
     THEN SaveToTempAndReload(Insert(pages, i, NewPage), names)
     ELSE SaveToTempAndReload(pages, names)

AddPage(i) ==
  /\ PageRoom
  /\ IF i <= Len(pages)
     THEN SaveToTempAndReload(Insert(pages, i, NewPage), Insert(names, i, NewPage))
     ELSE SaveToTempAndReload(pages, names)

(* "Duplicate Before" copies to index i, "Duplicate After" to the next.    *)
CopyPage(i, to) ==
  /\ PageRoom
  /\ IF i <= Len(pages)
     THEN SaveToTempAndReload(Insert(pages, to, pages[i]), Insert(names, to, names[i]))
     ELSE SaveToTempAndReload(pages, names)

DeletePage(i) ==
  /\ Room
  /\ IF i <= Len(pages)
     THEN SaveToTempAndReload(Erase(pages, i), Erase(names, i))
     ELSE SaveToTempAndReload(pages, names)

(* AddCol and DeleteCol, refused or not.                                   *)
EditColumns ==
  /\ Room /\ tabs > 0
  /\ SaveToTempAndReload(pages, names)

(* RenamePage.  A load that ended early may leave tabs without a name: then *)
(* it reads and writes past the vector's end, which does nothing that can  *)
(* be seen or brings the program down.                                     *)
RenamePage(i, name) ==
  /\ i <= Len(names)
  /\ names' = [names EXCEPT ![i] = name]
  /\ pages' = IF i <= Len(pages) THEN [pages EXCEPT ![i] = name] ELSE pages
  /\ UNCHANGED <<tabs, file, loads>>

RenameNothing(i) ==
  /\ i > Len(names)
  /\ pages' = <<>> /\ names' = <<>> /\ tabs' = 0 /\ loads' = 0
  /\ UNCHANGED file

(* A middle click closes a tab (wxAUI_NB_MIDDLE_CLICK_CLOSE): the tabs      *)
(* after it now stand for the pages before theirs.                          *)
CloseTab ==
  /\ tabs > 0 /\ tabs' = tabs - 1
  /\ UNCHANGED <<pages, names, file, loads>>

Panel ==
  \/ \E i \in 1 .. tabs :
       \/ AddPage(i) \/ DeletePage(i) \/ RenameNothing(i)
       \/ \E to \in {i - 1, i} : CopyPage(i, to)
       \/ \E name \in Names : RenamePage(i, name)
  \/ EditColumns \/ CloseTab \/ Save

-----------------------------------------------------------------------------
(* ExecuteByName, which a macro calls, runs the commands of the page whose *)
(* index is that of the first such name.                                   *)
FirstNamed(page) ==
  CHOOSE i \in DOMAIN names : names[i] = page /\ \A k \in 1 .. i - 1 : names[k] # page
ExecuteByName(page) ==
  CASE \A i \in DOMAIN names : names[i] # page -> "nothing"
    [] FirstNamed(page) \in DOMAIN pages -> pages[FirstNamed(page)]
    [] OTHER -> "what is past the last page"

(* The user edits Cmds.xml.                                                *)
EditFile ==
  /\ loads < MaxLoads /\ file' \in Edited
  /\ UNCHANGED <<pages, names, tabs, loads>>

Restart ==
  /\ pages' = <<>> /\ names' = <<>> /\ tabs' = 0 /\ loads' = 0
  /\ UNCHANGED file

Next == Reload \/ Panel \/ EditFile \/ Restart

Spec == Init /\ [][Next]_vars

-----------------------------------------------------------------------------
TypeOK ==
  /\ pages \in Seq(Names) /\ names \in Seq(Names)
  /\ tabs \in Nat /\ loads \in 0 .. MaxLoads
  /\ file \in [kind : {"pages", "missing", "malformed", "no pages"}, declared : Nat,
               named : Seq(Names), whole : Nat]
  /\ file.whole <= Len(file.named) /\ Len(file.named) <= file.declared

(* No page is ever without a name, whichever loads failed or ended early:  *)
(* Save, CopyPage and DeletePage, which take the name at the page's index  *)
(* unchecked, always find one.                                             *)
SaveHasNames == Len(pages) <= Len(names)

(* As long as Cmds.xml has been loaded only once, every page is called by  *)
(* its own name, however many pages have been added, copied, deleted and   *)
(* renamed in between and however many names the reloads of the temporary  *)
(* file have left behind: Save writes no page under another page's name.  *)
NamesFollowPages ==
  loads <= 1 => \A i \in DOMAIN pages : i <= Len(names) => names[i] = pages[i]

(* A macro that runs a command by the name of its page ("Run a command by  *)
(* the names it carries in Cmds.xml") never runs another page's commands.  *)
(* It does: once Cmds.xml has been edited and loaded again, the names it   *)
(* had before still come first.                                            *)
RunsNamedPage ==
  \A page \in Names : ExecuteByName(page) \in {"nothing", page, "what is past the last page"}
=============================================================================
