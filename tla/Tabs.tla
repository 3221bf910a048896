-------------------------------- MODULE Tabs --------------------------------
(***************************************************************************)
(* The tabs of the iOS browser: the tab bar (SWBTabBarView), the pages and *)
(* their file (SWBPageManager), the bounded cache of web views             *)
(* (SWBWebViewContainer) and the controller that keeps them in step        *)
(* (SWBViewController).                                                    *)
(*                                                                         *)
(* All of it runs on the main thread, so one action is one user event, one *)
(* callback of a web view or one life-cycle event, with every delegate     *)
(* call it makes.  What interleaves are these events: loads that end while *)
(* tabs are opened, closed, moved and selected, memory warnings, saves,    *)
(* and the process being killed and launched again.                        *)
(*                                                                         *)
(* A tab and its web view carry a tag, unique while the process lives; a   *)
(* page object has an identity here (Page) that the file keeps, though the *)
(* code has none, to say which page came back.                             *)
(***************************************************************************)
EXTENDS Naturals, Sequences, SequencesExt

CONSTANTS Page,        \* identities of pages
          Urls,        \* addresses
          NewTabUrl,   \* kNewTabAddress
          FirstUrl,    \* opened when no page was loaded
          LastUrl,     \* opened when the last tab was closed
          MaxCached,   \* kMaxCachedWebViews
          MinCached,   \* kMinCachedWebViews
          MaxTabs,     \* bound on the open tabs
          MaxTag       \* bound on the tags one process gives out

ASSUME TabsAssumption ==
  /\ {NewTabUrl, FirstUrl, LastUrl} \subseteq Urls
  /\ MinCached \in Nat \ {0} /\ MaxCached \in Nat \ {0} /\ MinCached <= MaxCached
  /\ MaxCached >= 2
  /\ MaxTabs \in Nat \ {0} /\ MaxTag \in Nat \ {0}

VARIABLES
  tabs,            \* SWBTabBarView tabs: their tags, from left to right
  currentTab,      \* tag of the tab bar's currentTab
  currentMaxTag,   \* the tab bar's next tag
  pages,           \* SWBPageManager pages
  tagToPage,       \* SWBPageManager tagToPageMapping
  url,             \* page.url of each page
  selected,        \* the pages whose selected is YES
  cached,          \* cachedWebViews
  currentWebView,  \* tag of the container's currentWebView
  file,            \* pages.json
  shownLast        \* history: tags of the open tabs, last shown at the end

tabBar    == <<tabs, currentTab, currentMaxTag>>
pageList  == <<pages, tagToPage, selected>>
container == <<cached, currentWebView>>
vars == <<tabBar, pageList, url, container, file, shownLast>>

NoUrl == "none"

(* A web view: its tag, the page whose address it was given when it was    *)
(* created, and the address it is loading (NoUrl once the load ended).     *)
WebView == [tag : Nat, page : Page, loading : Urls \cup {NoUrl}]
Saved   == [page : Page, url : Urls, selected : BOOLEAN]

TypeOK ==
  /\ tabs \in Seq(Nat) /\ Len(tabs) \in 1..MaxTabs
  /\ currentTab \in ToSet(tabs)
  /\ currentMaxTag \in 0..MaxTag
  /\ pages \in Seq(Page)
  /\ tagToPage \in [ToSet(tabs) -> Page]
  /\ url \in [ToSet(pages) -> Urls]
  /\ selected \subseteq ToSet(pages)
  /\ cached \in Seq(WebView) /\ Len(cached) \in 1..MaxCached
  /\ currentWebView \in Nat
  /\ file \in Seq(Saved)
  /\ shownLast \in Seq(Nat)

-----------------------------------------------------------------------------
(* An object in a list, which holds it once (removeObject:). *)
PlaceOf(s, e) == CHOOSE i \in DOMAIN s : s[i] = e
Without(s, e) == RemoveAt(s, PlaceOf(s, e))

(* The cache of web views, as a value. *)

Tags(c) == [i \in DOMAIN c |-> c[i].tag]
Holds(c, tag) == tag \in ToSet(Tags(c))
Drop(c, tag) == RemoveAt(c, PlaceOf(Tags(c), tag))
Newest(c, n) == IF Len(c) <= n THEN c ELSE SubSeq(c, Len(c) - n + 1, Len(c))

(* Makes room for one more web view: the oldest goes. *)
Room(c) == IF Len(c) >= MaxCached THEN Tail(c) ELSE c

Created(c, tag, page, u) == Append(Room(c), [tag |-> tag, page |-> page, loading |-> u])

LeaveInPlace(c, tag) == c
MoveToEnd(c, tag) == Append(Drop(c, tag), c[PlaceOf(Tags(c), tag)])

(* webViewByTag for a tab that has a page: an evicted view is created anew *)
(* and told to load the page's address.                                    *)
ByTag(c, tag) == IF Holds(c, tag) THEN c
                 ELSE Created(c, tag, tagToPage[tag], url[tagToPage[tag]])

(* switchToWebView, with the web view of the tag screen being current:     *)
(* nothing happens if that is the one, and it has not been evicted.        *)
SwitchTo(c, screen, tag) == IF tag = screen /\ Holds(c, tag) THEN c
                            ELSE MoveToEnd(ByTag(c, tag), tag)

(* closeWebView, once the page is gone: an evicted view is created, with   *)
(* nothing to load, only to be removed, but another had to make room.      *)
CloseKeepsNew(c, tag) == IF Holds(c, tag) THEN Drop(c, tag)
                         ELSE Created(c, tag, tagToPage[tag], NoUrl)
CloseView(c, tag) == IF Holds(c, tag) THEN Drop(c, tag) ELSE Room(c)

Shown(order, tag) == Append(Without(order, tag), tag)

-----------------------------------------------------------------------------
(* Opening a tab: openLinkInNewTab, the only way while the process runs.   *)

Used == ToSet(pages) \cup {file[i].page : i \in DOMAIN file}
CanOpen == currentMaxTag < MaxTag /\ Page \ Used # {}
FreshPage == CHOOSE p \in Page : p \notin Used

(* The tab, its page and its web view, added to a tab bar, page list,      *)
(* mapping, cache and order of showing that what the same handler closed   *)
(* has already left.                                                       *)
OpenIn(bar, list, map, urls, c, order, u) ==
  LET tag == currentMaxTag
      p   == FreshPage
  IN  /\ tabs' = Append(bar, tag)
      /\ currentMaxTag' = tag + 1
      /\ pages' = Append(list, p)
      /\ tagToPage' = [t \in DOMAIN map \cup {tag} |-> IF t = tag THEN p ELSE map[t]]
      /\ url' = [q \in DOMAIN urls \cup {p} |-> IF q = p THEN u ELSE urls[q]]
      /\ cached' = Created(c, tag, p, u)
      /\ selected' = {p}
      /\ currentTab' = tag
      /\ currentWebView' = tag
      /\ shownLast' = Append(order, tag)

OpenLinkInNewTab ==
  /\ CanOpen /\ Len(tabs) < MaxTabs
  /\ OpenIn(tabs, pages, tagToPage, url, cached, shownLast, NewTabUrl)
  /\ UNCHANGED file

-----------------------------------------------------------------------------
(* Selecting, moving and closing tabs. *)

SelectTab(tag) ==
  /\ tag \in ToSet(tabs) /\ tag # currentTab
  /\ currentTab' = tag
  /\ cached' = SwitchTo(cached, currentWebView, tag)
  /\ currentWebView' = tag
  /\ selected' = {tagToPage[tag]}
  /\ shownLast' = Shown(shownLast, tag)
  /\ UNCHANGED <<tabs, currentMaxTag, pages, tagToPage, url, file>>

(* Dragging a tab to another place; the pages keep their order. *)
MoveTab(tag, index) ==
  /\ tag \in ToSet(tabs)
  /\ tabs' = InsertAt(Without(tabs, tag), index, tag)
  /\ UNCHANGED <<currentTab, currentMaxTag, pageList, url, container, file, shownLast>>

(* The tab that is current once tag is closed: its right neighbour, or the *)
(* left one of the last tab.                                               *)
Successor(tag) ==
  LET i == PlaceOf(tabs, tag)
  IN  IF tag # currentTab THEN currentTab
      ELSE IF i = Len(tabs) THEN tabs[i - 1] ELSE tabs[i + 1]

(* setCurrentTab comes first, while the closed tab is still in every list; *)
(* then its page and its web view go, and the container is told to switch  *)
(* once more, which finds the view current unless closing evicted it.      *)
CloseTab(tag) ==
  /\ Len(tabs) > 1 /\ tag \in ToSet(tabs)
  /\ LET next == Successor(tag)
         page == tagToPage[tag]
     IN  /\ currentTab' = next
         /\ currentWebView' = next
         /\ cached' = SwitchTo(CloseView(SwitchTo(cached, currentWebView, next), tag),
                               next, next)
         /\ selected' = IF next = currentWebView THEN selected \ {page}
                        ELSE {tagToPage[next]}
         /\ shownLast' = Without(Shown(shownLast, next), tag)
         /\ tabs' = Without(tabs, tag)
         /\ pages' = Without(pages, page)
         /\ tagToPage' = [t \in DOMAIN tagToPage \ {tag} |-> tagToPage[t]]
         /\ url' = [q \in DOMAIN url \ {page} |-> url[q]]
  /\ UNCHANGED <<currentMaxTag, file>>

CloseLastTab ==
  /\ Len(tabs) = 1 /\ CanOpen
  /\ OpenIn(<<>>, <<>>, [t \in {} |-> 0], [q \in {} |-> LastUrl],
            CloseView(cached, currentTab), <<>>, LastUrl)
  /\ UNCHANGED file

-----------------------------------------------------------------------------
(* Loading. *)

SetLoading(tag, u) ==
  [i \in DOMAIN cached |->
     IF cached[i].tag = tag THEN [cached[i] EXCEPT !.loading = u] ELSE cached[i]]

(* openURL: the user enters an address; the page keeps its own till the    *)
(* load ends.                                                              *)
OpenURL(u) ==
  /\ cached' = SetLoading(currentWebView, u)
  /\ UNCHANGED <<tabBar, pageList, url, currentWebView, file, shownLast>>

PageOfCurrent(tag) == tagToPage[currentTab]
PageByTag(tag) == tagToPage[tag]

(* A link, or back or forward: the page takes the address at once. *)
FollowLink(u) ==
  /\ u # NewTabUrl
  /\ cached' = SetLoading(currentWebView, u)
  /\ url' = [url EXCEPT ![PageByTag(currentWebView)] = u]
  /\ UNCHANGED <<tabBar, pageList, currentWebView, file, shownLast>>

(* A load ends, in whichever tab it was: the view's tag finds the page. *)
DidFinishLoad(i) ==
  /\ i \in DOMAIN cached /\ cached[i].loading # NoUrl
  /\ url' = [url EXCEPT ![PageByTag(cached[i].tag)] = cached[i].loading]
  /\ cached' = SetLoading(cached[i].tag, NoUrl)
  /\ UNCHANGED <<tabBar, pageList, currentWebView, file, shownLast>>

(* A load fails, or ends at a document that has moved on (location.href is *)
(* not the request's address): the page keeps its address.                 *)
DidFailLoad(i) ==
  /\ i \in DOMAIN cached /\ cached[i].loading # NoUrl
  /\ cached' = SetLoading(cached[i].tag, NoUrl)
  /\ UNCHANGED <<tabBar, pageList, url, currentWebView, file, shownLast>>

-----------------------------------------------------------------------------
(* Life cycle. *)

ReleaseBackgroundWebViews ==
  /\ Len(cached) > MinCached
  /\ cached' = Newest(cached, MinCached)
  /\ UNCHANGED <<tabBar, pageList, url, currentWebView, file, shownLast>>

(* applicationDidEnterBackground and applicationWillTerminate.  The file   *)
(* is written atomically.                                                  *)
Save ==
  /\ file' = [i \in DOMAIN pages |->
                [page |-> pages[i], url |-> url[pages[i]],
                 selected |-> pages[i] \in selected]]
  /\ UNCHANGED <<tabBar, pageList, url, container, shownLast>>

(* The tag the loop over the loaded pages leaves in currentTabTag, read    *)
(* before the web views are created, since each of them selects its page.  *)
SelectedAfterTabs(f) == Len(f) - 1
SelectedTag(f) ==
  LET S == {i \in DOMAIN f : f[i].selected}
  IN  IF S = {} THEN 0 ELSE (CHOOSE i \in S : \A j \in S : j <= i) - 1

(* addNewTab for each loaded page in turn: more of them than fit evict the *)
(* first ones.                                                             *)
Restored(f) ==
  Newest([i \in DOMAIN f |-> [tag |-> i - 1, page |-> f[i].page, loading |-> f[i].url]],
         MaxCached)

(* What switchToWebView makes of the cache after these. *)
RestoredAndShown(f, tag) ==
  LET c == Restored(f)
  IN  MoveToEnd(IF Holds(c, tag) THEN c
                ELSE Created(c, tag, f[tag + 1].page, f[tag + 1].url), tag)

(* The process ends, saved or not, and is launched again.  Tags start from *)
(* zero, in the order of the file.                                         *)
FirstTags(f) == [i \in DOMAIN f |-> i - 1]
NotCounted(f) == 0
TagsGiven(f) == Len(f)

Relaunch ==
  /\ file # <<>> /\ Len(file) <= MaxTag
  /\ LET tag == SelectedTag(file)
     IN  /\ tabs' = FirstTags(file)
         /\ currentMaxTag' = TagsGiven(file)
         /\ pages' = [i \in DOMAIN file |-> file[i].page]
         /\ tagToPage' = [t \in ToSet(FirstTags(file)) |-> file[t + 1].page]
         /\ url' = [p \in {file[i].page : i \in DOMAIN file} |->
                      (CHOOSE s \in ToSet(file) : s.page = p).url]
         /\ cached' = RestoredAndShown(file, tag)
         /\ selected' = {file[tag + 1].page}
         /\ currentTab' = tag
         /\ currentWebView' = tag
         /\ shownLast' = Shown(FirstTags(file), tag)
  /\ UNCHANGED file

(* A launch that finds no file: there was no save yet, or the system has   *)
(* emptied the caches directory the file is in.                            *)
FirstView(p) == [tag |-> 0, page |-> p, loading |-> FirstUrl]

StartAnew ==
  /\ \E p \in Page :
       /\ p = CHOOSE q \in Page : TRUE
       /\ tabs' = <<0>> /\ currentTab' = 0 /\ currentMaxTag' = 1
       /\ pages' = <<p>> /\ tagToPage' = [t \in {0} |-> p]
       /\ url' = [q \in {p} |-> FirstUrl] /\ selected' = {p}
       /\ cached' = <<FirstView(p)>> /\ currentWebView' = 0
  /\ file' = <<>> /\ shownLast' = <<0>>

Init ==
  /\ \E p \in Page :
       /\ p = CHOOSE q \in Page : TRUE
       /\ tabs = <<0>> /\ currentTab = 0 /\ currentMaxTag = 1
       /\ pages = <<p>> /\ tagToPage = [t \in {0} |-> p]
       /\ url = [q \in {p} |-> FirstUrl] /\ selected = {p}
       /\ cached = <<FirstView(p)>> /\ currentWebView = 0
  /\ file = <<>> /\ shownLast = <<0>>

Next ==
  \/ OpenLinkInNewTab
  \/ \E tag \in ToSet(tabs) :
       \/ SelectTab(tag)
       \/ CloseTab(tag)
       \/ \E index \in 1..Len(tabs) : MoveTab(tag, index)
  \/ CloseLastTab
  \/ \E u \in Urls : OpenURL(u) \/ FollowLink(u)
  \/ \E i \in DOMAIN cached : DidFinishLoad(i) \/ DidFailLoad(i)
  \/ ReleaseBackgroundWebViews
  \/ Save
  \/ Relaunch
  \/ StartAnew

Spec == Init /\ [][Next]_vars

-----------------------------------------------------------------------------
(* Every tab has a page of its own and every page a tab, although tags come *)
(* from the tab bar's counter while the mapping of restored pages is made   *)
(* of their indices (SWBPageManager.m:47-53, SWBTabBarView.m:434-436).      *)
OnePagePerTab ==
  /\ IsInjective(tabs) /\ IsInjective(pages)
  /\ {tagToPage[t] : t \in ToSet(tabs)} = ToSet(pages)
  /\ Len(tabs) = Len(pages)
  /\ \A t \in ToSet(tabs) : t < currentMaxTag

(* The tab bar, the container and the page list agree on which tab is on    *)
(* the screen, and its web view is in the cache: no order of opening,       *)
(* closing and memory warnings evicts what the user looks at.               *)
ScreenAgrees ==
  /\ currentWebView = currentTab
  /\ Holds(cached, currentWebView)
  /\ selected = {tagToPage[currentTab]}

(* "The oldest at 0, the newest at the end" (SWBWebViewContainer.h:21): the *)
(* cached web views are those of the tabs shown last, in that order, each   *)
(* once, and none belongs to a closed tab.                                  *)
CacheIsMostRecent == IsSuffix(Tags(cached), shownLast)

(* A web view was made for the page its tab has now, across eviction,       *)
(* reloading and relaunching (webViewContainerWebViewDidCreateNew and       *)
(* webViewContainerWebViewNeedToReload look the page up by tag).            *)
OwnPage == \A i \in DOMAIN cached : cached[i].page = tagToPage[cached[i].tag]

(* An address reaches a page only from a web view made for it, or from the  *)
(* file: a load that ends late, in a tab no longer on the screen, does not  *)
(* change the page that is (webViewDidFinishLoad, SWBViewController.m:228). *)
AddressIsOwn ==
  [][\A p \in DOMAIN url \cap DOMAIN url' :
       url'[p] # url[p] =>
         \/ \E v \in ToSet(cached) \cup ToSet(cached') :
              v.page = p /\ v.loading = url'[p]
         \/ \E s \in ToSet(file) : s.page = p /\ s.url = url'[p]]_vars

(* The browser behaves as Browser says: the page on the screen is the one   *)
(* of the container's web view, whatever the tab bar believes.              *)
AsPages(f) == [p \in {f[i].page : i \in DOMAIN f} |->
                 (CHOOSE s \in ToSet(f) : s.page = p).url]
AbstractDisk == [pages |-> AsPages(file),
                 shown |-> {file[i].page : i \in {j \in DOMAIN file : file[j].selected}}]

B == INSTANCE Browser WITH open <- url, shown <- tagToPage[currentWebView],
                           disk <- AbstractDisk

IsBrowser == B!Spec
=============================================================================
