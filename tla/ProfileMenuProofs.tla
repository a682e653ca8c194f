---- MODULE ProfileMenuProofs ----
(***************************************************************************)
(* What the profile menu promises, for every set of names and contents and *)
(* every number of failures.                                               *)
(***************************************************************************)
EXTENDS ProfileMenu, FiniteSetTheorems, TLAPS

\* A save that the helper has not answered carries the content of the one
\* profile that it names.
SaveCarriesContent ==
    call.cmd = "saveProfile" /\ ~call.answered => DOMAIN call.listing = {call.name}

Calls == [cmd : {"none", "query", "saveProfile", "deleteProfile"}, name : Names \cup {None},
          answered : BOOLEAN, ok : BOOLEAN, listing : Listings]

IInv == /\ TypeOK
        /\ call \in Calls
        /\ SaveCarriesContent
        /\ OwnEntriesHaveFiles
        /\ RememberedIsListed

-----------------------------------------------------------------------------
(* Lemmas about listings and the calls *)

\* An empty listing is a listing.
LEMMA NoListingIsListing == NoListing \in Listings
<1>1. NoListing \in [{} -> Contents]
  BY DEF NoListing
<1> QED
  BY <1>1 DEF Listings

\* The call that is none is well formed.
LEMMA NoCallIsCall == NoCall \in Calls
  BY NoListingIsListing DEF NoCall, Calls

\* A new call of a known command with a well-formed listing is well formed.
LEMMA ExecuteKeepsTypes ==
    ASSUME NEW cmd \in {"query", "saveProfile", "deleteProfile"}, NEW name \in Names \cup {None},
           NEW files \in Listings, cmd = "saveProfile" => DOMAIN files = {name},
           IInv, Execute(cmd, name, files)
    PROVE  IInv'
<1>1. call' \in Calls /\ call'.cmd = cmd /\ call'.name = name /\ call'.listing = files
  BY NoCallIsCall DEF Execute, NoCall, Calls
<1>2. UNCHANGED <<disk, own, menu, existing, failures>>
  BY DEF Execute
<1>3. TypeOK'
  BY <1>1, <1>2 DEF IInv, TypeOK, Calls
<1> QED
  BY <1>1, <1>2, <1>3 DEF IInv, SaveCarriesContent, OwnEntriesHaveFiles, RememberedIsListed, IsSystem, Listed

\* refreshProfiles keeps the menu, the files and existingProfiles in step.
LEMMA RefreshKeepsMenu ==
    ASSUME IInv, NEW listing \in Listings, NEW stuck \in SUBSET Names, refreshProfiles(listing, stuck)
    PROVE  /\ menu' \in Menus
           /\ own' \subseteq Names
           /\ existing' \subseteq Names
           /\ OwnEntriesHaveFiles'
           /\ RememberedIsListed'
<1> DEFINE gone  == {n \in Deleted(listing) : IsSystem(n)}
           added == Added(listing, stuck)
           after == (DOMAIN menu \ gone) \cup added
<1>1. /\ menu' = [n \in after |-> IF n \in added THEN [content |-> listing[n], system |-> TRUE] ELSE menu[n]]
      /\ existing' = added
      /\ own' = own \ added
  BY DEF refreshProfiles
<1>2. DOMAIN listing \subseteq Names /\ \A n \in DOMAIN listing : listing[n] \in Contents
  BY DEF Listings
<1>3. DOMAIN menu \subseteq Names /\ \A n \in DOMAIN menu : menu[n] \in Entries
  BY DEF IInv, TypeOK, Menus
<1>4. added \subseteq DOMAIN listing
  BY DEF Added, New
<1>5. after \subseteq Names
  BY <1>2, <1>3, <1>4
<1>6. \A n \in added : [content |-> listing[n], system |-> TRUE] \in Entries
  BY <1>2, <1>4 DEF Entries
<1>7. menu' \in [after -> Entries]
  BY <1>1, <1>3, <1>6
<1>8. menu' \in Menus
  BY <1>5, <1>7 DEF Menus
<1>9. DOMAIN menu' = after
  BY <1>1
<1>10. OwnEntriesHaveFiles'
  <2>1. \A n \in gone : menu[n].system
    BY DEF IsSystem
  <2>2. \A n \in added : menu'[n].system
    BY <1>1
  <2>3. \A n \in after \ added : menu'[n] = menu[n]
    BY <1>1
  <2>4. own = {n \in DOMAIN menu : ~menu[n].system}
    BY DEF IInv, OwnEntriesHaveFiles
  <2>5. own' = own \ added
    BY <1>1
  <2> HIDE DEF gone, added
  <2>6. own \ added = {n \in after : ~menu'[n].system}
    BY <2>1, <2>2, <2>3, <2>4
  <2> QED
    BY <2>5, <2>6, <1>9 DEF OwnEntriesHaveFiles
<1>11. RememberedIsListed'
  BY <1>1, <1>9 DEF RememberedIsListed, IsSystem, Listed
<1>12. own' \subseteq Names /\ existing' \subseteq Names
  BY <1>1, <1>2, <1>4 DEF IInv, TypeOK
<1> QED
  BY <1>8, <1>10, <1>11, <1>12

-----------------------------------------------------------------------------
(* The invariant *)

\* The invariant holds when the window opens.
LEMMA InitIInv == Init => IInv
<1> SUFFICES ASSUME Init PROVE IInv
  OBVIOUS
<1>1. call \in Calls /\ call.cmd = "query"
  BY NoCallIsCall DEF Init, NoCall, Calls
<1>2. own \in SUBSET Names /\ menu \in [own -> [content : Contents, system : {FALSE}]]
  BY DEF Init
<1>3. menu \in Menus
  <2>1. menu \in [own -> Entries]
    BY <1>2 DEF Entries
  <2> QED
    BY <1>2, <2>1 DEF Menus
<1>4. OwnEntriesHaveFiles
  BY <1>2 DEF OwnEntriesHaveFiles
<1>5. TypeOK
  BY <1>1, <1>2, <1>3, ProfileMenuAssumption DEF Init, TypeOK, Calls
<1> QED
  BY <1>1, <1>4, <1>5 DEF IInv, SaveCarriesContent, RememberedIsListed, Init

\* What the helper does to the files and to the call.
LEMMA ServeKeepsIInv == IInv /\ Serve => IInv'
<1> SUFFICES ASSUME IInv, Serve PROVE IInv'
  OBVIOUS
<1>1. UNCHANGED <<own, menu, existing>>
  BY DEF Serve
<1>2. ASSUME NEW ok \in BOOLEAN, NEW files \in Listings, Answer(ok, files), ~call.answered
      PROVE  call' \in Calls /\ SaveCarriesContent'
  BY <1>2 DEF IInv, Calls, Answer, SaveCarriesContent
<1>3. call' \in Calls /\ SaveCarriesContent' /\ disk' \in Listings /\ failures' \in 0..MaxFailures
  <2>1. CASE ServeQuery
    BY <2>1, <1>2 DEF ServeQuery, IInv, TypeOK
  <2>2. CASE ServeSave
    <3>1. call' \in Calls /\ SaveCarriesContent' /\ UNCHANGED failures
      BY <2>2, <1>2, NoListingIsListing DEF ServeSave
    <3>2. DOMAIN call.listing = {call.name} /\ call.listing \in Listings
      BY <2>2 DEF ServeSave, IInv, SaveCarriesContent, Calls
    <3>3. call.name \in Names /\ call.listing[call.name] \in Contents
      BY <3>2 DEF Listings
    <3>4. DOMAIN disk \subseteq Names /\ \A n \in DOMAIN disk : disk[n] \in Contents
      BY DEF IInv, TypeOK, Listings
    <3>5. disk' \in [DOMAIN disk \cup {call.name} -> Contents]
      BY <2>2, <3>3, <3>4 DEF ServeSave
    <3>6. disk' \in Listings
      BY <3>3, <3>4, <3>5 DEF Listings
    <3> QED
      BY <3>1, <3>6 DEF IInv, TypeOK
  <2>3. CASE ServeDelete
    <3> DEFINE found == call.name \in DOMAIN disk
    <3>a. found \in BOOLEAN
      OBVIOUS
    <3>b. Answer(found, NoListing) /\ ~call.answered /\ UNCHANGED failures
      BY <2>3 DEF ServeDelete
    <3> HIDE DEF found
    <3>1. call' \in Calls /\ SaveCarriesContent' /\ UNCHANGED failures
      BY <3>a, <3>b, <1>2, NoListingIsListing
    <3>2. DOMAIN disk \subseteq Names /\ \A n \in DOMAIN disk : disk[n] \in Contents
      BY DEF IInv, TypeOK, Listings
    <3>3. disk' \in [DOMAIN disk \ {call.name} -> Contents]
      BY <2>3, <3>2 DEF ServeDelete
    <3>4. disk' \in Listings
      BY <3>2, <3>3 DEF Listings
    <3> QED
      BY <3>1, <3>4 DEF IInv, TypeOK
  <2>4. CASE ServeFails
    <3>1. Answer(FALSE, NoListing) /\ ~call.answered
      BY <2>4 DEF ServeFails
    <3>2. call' \in Calls /\ SaveCarriesContent'
      BY <3>1, <1>2, NoListingIsListing
    <3>3. failures' \in 0..MaxFailures
      BY <2>4, ProfileMenuAssumption DEF ServeFails, IInv, TypeOK
    <3> QED
      BY <2>4, <3>2, <3>3 DEF ServeFails, IInv, TypeOK
  <2> QED
    BY <2>1, <2>2, <2>3, <2>4 DEF Serve
<1> QED
  BY <1>1, <1>3 DEF IInv, TypeOK, Calls, OwnEntriesHaveFiles, RememberedIsListed, IsSystem, Listed

\* Every step keeps it.
LEMMA StepKeepsIInv == IInv /\ [Next]_vars => IInv'
<1> SUFFICES ASSUME IInv, [Next]_vars PROVE IInv'
  OBVIOUS
<1>1. CASE Refresh
  BY <1>1, ExecuteKeepsTypes, NoListingIsListing DEF Refresh
<1>2. CASE Save
  <2>1. PICK name \in Names, c \in Contents : Execute("saveProfile", name, [n \in {name} |-> c])
    BY <1>2 DEF Save
  <2>2. [n \in {name} |-> c] \in [{name} -> Contents]
    OBVIOUS
  <2>3. [n \in {name} |-> c] \in Listings
    BY <2>2 DEF Listings
  <2> QED
    BY <2>1, <2>3, ExecuteKeepsTypes
<1>3. CASE RemoveSystem
  BY <1>3, ExecuteKeepsTypes, NoListingIsListing DEF RemoveSystem
<1>4. CASE RemoveOwn
  <2>1. PICK name \in own :
          /\ Listed(name) /\ ~IsSystem(name)
          /\ own' = own \ {name}
          /\ menu' = [n \in DOMAIN menu \ {name} |-> menu[n]]
    BY <1>4 DEF RemoveOwn
  <2>2. UNCHANGED <<disk, existing, call, failures>>
    BY <1>4 DEF RemoveOwn
  <2>3. DOMAIN menu \subseteq Names /\ \A n \in DOMAIN menu : menu[n] \in Entries
    BY DEF IInv, TypeOK, Menus
  <2>4. menu' \in [DOMAIN menu \ {name} -> Entries]
    BY <2>1, <2>3
  <2>5. menu' \in Menus
    BY <2>3, <2>4 DEF Menus
  <2>6. OwnEntriesHaveFiles' /\ RememberedIsListed'
    BY <2>1, <2>2 DEF IInv, OwnEntriesHaveFiles, RememberedIsListed, IsSystem, Listed
  <2> QED
    BY <2>1, <2>2, <2>5, <2>6 DEF IInv, TypeOK, Calls, SaveCarriesContent
<1>5. CASE Serve
  BY <1>5, ServeKeepsIInv
<1>6. CASE Elsewhere
  BY <1>6 DEF Elsewhere, IInv, TypeOK, Calls, SaveCarriesContent, OwnEntriesHaveFiles,
     RememberedIsListed, IsSystem, Listed
<1>7. CASE QueryPerformed
  <2>1. PICK stuck \in SUBSET InTheWay(call.listing) :
          /\ failures + Cardinality(stuck) <= MaxFailures
          /\ failures' = failures + Cardinality(stuck)
          /\ refreshProfiles(call.listing, stuck)
    BY <1>7 DEF QueryPerformed
  <2>2. call' = NoCall /\ UNCHANGED disk
    BY <1>7 DEF QueryPerformed
  <2>3. call.listing \in Listings /\ failures \in Nat
    BY DEF IInv, TypeOK, Calls
  <2>4. InTheWay(call.listing) \subseteq DOMAIN call.listing
    BY DEF InTheWay, New
  <2>5. stuck \in SUBSET Names
    BY <2>3, <2>4 DEF Listings
  <2>6. failures' \in 0..MaxFailures
    <3>1. IsFiniteSet(stuck)
      BY <2>5, ProfileMenuAssumption, FS_Subset
    <3>2. Cardinality(stuck) \in Nat
      BY <3>1, FS_CardinalityType
    <3> QED
      BY <2>1, <2>3, <3>2, ProfileMenuAssumption
  <2> QED
    BY <2>2, <2>3, <2>1, <2>5, <2>6, RefreshKeepsMenu, NoCallIsCall
    DEF IInv, TypeOK, Calls, SaveCarriesContent, NoCall
<1>8. CASE ModifyPerformed
  <2>1. refreshProfiles(call.listing, {}) /\ call' = NoCall /\ UNCHANGED <<disk, failures>>
    BY <1>8 DEF ModifyPerformed
  <2>2. call.listing \in Listings
    BY DEF IInv, TypeOK
  <2> QED
    BY <2>1, <2>2, RefreshKeepsMenu, NoCallIsCall
    DEF IInv, TypeOK, Calls, SaveCarriesContent, NoCall
<1>9. CASE Failed
  BY <1>9, NoCallIsCall DEF Failed, IInv, TypeOK, Calls, SaveCarriesContent, NoCall,
     OwnEntriesHaveFiles, RememberedIsListed, IsSystem, Listed
<1>10. CASE UNCHANGED vars
  BY <1>10 DEF vars, IInv, TypeOK, Calls, SaveCarriesContent, OwnEntriesHaveFiles,
     RememberedIsListed, IsSystem, Listed
<1> QED
  BY <1>1, <1>2, <1>3, <1>4, <1>5, <1>6, <1>7, <1>8, <1>9, <1>10 DEF Next

\* The invariant holds throughout.
LEMMA SpecIInv == Spec => []IInv
  BY InitIInv, StepKeepsIInv, PTL DEF Spec

-----------------------------------------------------------------------------
(* Theorems *)

\* The variables keep to their types.
THEOREM TypeCorrect == Spec => []TypeOK
BY SpecIInv, PTL DEF IInv

\* existingProfiles never has a name without a system entry in the menu
\* (refreshProfiles).
THEOREM RememberedProfilesAreListed == Spec => []RememberedIsListed
BY SpecIInv, PTL DEF IInv

\* Exactly the user's own files have entries that are not marked as system
\* profiles (listUserProfiles, removeProfile, refreshProfiles).
THEOREM FilesMatchEntries == Spec => []OwnEntriesHaveFiles
BY SpecIInv, PTL DEF IInv

\* After a refresh from a full listing every listed profile has an entry
\* (refreshProfiles).
THEOREM FullRefresh == Spec => RefreshListsEverything
<1>1. ASSUME IInv, [Next]_vars, call.cmd = "query", call.ok, call' = NoCall
      PROVE  DOMAIN call.listing \subseteq DOMAIN menu'
  <2>1. CASE QueryPerformed
    <3>1. PICK stuck \in SUBSET InTheWay(call.listing) : refreshProfiles(call.listing, stuck)
      BY <2>1 DEF QueryPerformed
    <3>2. \A n \in DOMAIN call.listing : n \in existing => n \in DOMAIN menu
      BY <1>1 DEF IInv, RememberedIsListed, IsSystem, Listed
    <3>3. \A n \in New(call.listing) : n \in DOMAIN menu \/ n \in Added(call.listing, stuck)
      BY <3>1 DEF Added, InTheWay, IsSystem, Listed
    <3>4. \A n \in DOMAIN call.listing : n \notin Deleted(call.listing)
      BY DEF Deleted
    <3>5. \A n \in DOMAIN call.listing : n \in existing \/ n \in New(call.listing)
      BY DEF New
    <3>6. DOMAIN menu' = (DOMAIN menu \ {n \in Deleted(call.listing) : IsSystem(n)})
                           \cup Added(call.listing, stuck)
      BY <3>1 DEF refreshProfiles
    <3> QED
      BY <3>2, <3>3, <3>4, <3>5, <3>6
  <2>2. ASSUME ~QueryPerformed PROVE FALSE
    <3>1. NoCall.cmd = "none"
      BY DEF NoCall
    <3>2. ~Refresh /\ ~Save /\ ~RemoveSystem
      BY <1>1, <3>1 DEF Refresh, Save, RemoveSystem, Execute
    <3>3. ~RemoveOwn /\ ~Elsewhere /\ ~ModifyPerformed /\ ~Failed /\ ~(UNCHANGED vars)
      BY <1>1, <3>1 DEF RemoveOwn, Elsewhere, ModifyPerformed, Failed, vars
    <3>4. ~Serve
      <4>1. SUFFICES ASSUME Serve PROVE FALSE
        OBVIOUS
      <4>2. call'.cmd = call.cmd
        BY <1>1, <4>1 DEF Serve, ServeQuery, ServeSave, ServeDelete, ServeFails, Answer, IInv, Calls
      <4> QED
        BY <4>2, <3>1, <1>1
    <3> QED
      BY <1>1, <2>2, <3>2, <3>3, <3>4 DEF Next
  <2> QED
    BY <2>1, <2>2
<1>2. IInv /\ [Next]_vars
        => [call.cmd = "query" /\ call.ok /\ call' = NoCall => DOMAIN call.listing \subseteq DOMAIN menu']_vars
  BY <1>1
<1> QED
  BY <1>2, SpecIInv, PTL DEF Spec, RefreshListsEverything

\* One of the user's own profiles never leaves the menu by itself
\* (refreshProfiles, removeProfile).
THEOREM OwnProfilesAreKept == Spec => OwnProfilesStay
<1>1. ASSUME IInv, [Next]_vars, NEW n \in DOMAIN menu, ~menu[n].system
      PROVE  n \in DOMAIN menu' \/ (call = NoCall /\ own' = own \ {n})
  <2>1. CASE RemoveOwn
    <3>1. PICK name \in own : /\ own' = own \ {name}
                              /\ menu' = [m \in DOMAIN menu \ {name} |-> menu[m]]
      BY <2>1 DEF RemoveOwn
    <3>2. call = NoCall
      BY <2>1 DEF RemoveOwn
    <3> QED
      BY <3>1, <3>2
  <2>2. ASSUME NEW listing, NEW stuck, refreshProfiles(listing, stuck) PROVE n \in DOMAIN menu'
    BY <1>1, <2>2 DEF refreshProfiles, IsSystem
  <2>3. CASE QueryPerformed \/ ModifyPerformed
    BY <2>2, <2>3 DEF QueryPerformed, ModifyPerformed
  <2>4. ASSUME ~RemoveOwn, ~QueryPerformed, ~ModifyPerformed PROVE menu' = menu
    BY <1>1, <2>4 DEF Next, vars, Refresh, Save, RemoveSystem, Execute, Serve, Elsewhere, Failed
  <2> QED
    BY <2>1, <2>3, <2>4
<1>2. IInv /\ [Next]_vars
        => [\A n \in DOMAIN menu : ~menu[n].system =>
               n \in DOMAIN menu' \/ (call = NoCall /\ own' = own \ {n})]_vars
  BY <1>1
<1> QED
  BY <1>2, SpecIInv, PTL DEF Spec, OwnProfilesStay
====
