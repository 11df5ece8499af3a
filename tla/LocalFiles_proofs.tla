------------------------- MODULE LocalFiles_proofs -------------------------
(***************************************************************************)
(* Proofs about the files that programs of one user share.  The first part *)
(* is about the .configu file (ConfiguFile), for any number of processes,  *)
(* of stores and of commands, and any files to begin with; the second      *)
(* about the cache of store packages (ModuleCache), for any packages,      *)
(* tasks, outages and kills.  The modules share no state.                  *)
(***************************************************************************)
EXTENDS ConfiguFile, ModuleCache, TLAPS

Place == {"idle", "registering", "broken", "running", "writing", "written", "reloading",
          "failed", "loggedIn"}

(* Where a login is whose save has begun. *)
InSave == {"writing", "written", "reloading"}

Choice == [name : Store \cup {Undefined}, config : Value \cup {ByType}]

FileTypeInv ==
    /\ file \in Contents \cup {Missing, Blank, Garbled}
    /\ detached \subseteq Process /\ disturbed \subseteq Process
    /\ pc \in [Process -> Place]
    /\ local \in [Process -> Contents] /\ saved \in [Process -> Contents]
    /\ reread \in [Process -> Contents]
    /\ chosen \in [Process -> Choice \cup {Undefined}]
    /\ original \in Contents \cup {Missing}
    /\ harmed \in BOOLEAN
    /\ granted \subseteq Credentials

(* What was in the original file is in contents, as far as saves keep it.  *)
Whole(contents) ==
    \A e \in DOMAIN original \ {Platform} : e \in DOMAIN contents /\ contents[e] \in Forms(e)

(* Until a process fails to load the file nobody unlinks it, and what is   *)
(* loaded, saved and written is whole.                                     *)
Surviving ==
    original # Missing /\ ~harmed =>
        /\ file # Missing
        /\ file \in Contents => Whole(file)
        /\ \A p \in Process :
              /\ pc[p] # "broken"
              /\ pc[p] # "idle" => Whole(local[p])
              /\ pc[p] \in {"writing", "written"} => Whole(saved[p])

(* Once a save has begun, the original credentials are gone for good. *)
Granted ==
    granted # {} /\ file \in Contents => Platform \in DOMAIN file /\ file[Platform] \in granted

(* What a login saves. *)
Login(old, c) == Merge(old, [n \in {Platform} |-> c])

(* What is saved is what was loaded, rendered, with the credentials. *)
Saving(p) ==
    /\ \A e \in DOMAIN local[p] : local[p][e] # Placeholder
    /\ pc[p] \in InSave => \E c \in granted : saved[p] = Login(local[p], c)

(* A save finds the file as it left it, unless it is disturbed. *)
Undisturbed(p) ==
    p \notin disturbed =>
        /\ pc[p] = "writing" => file = Blank /\ p \notin detached
        /\ pc[p] = "written" => file = saved[p]
        /\ pc[p] = "reloading" => file = saved[p] /\ DOMAIN reread[p] = DOMAIN saved[p]

(* What is loaded after a save has credentials. *)
ReadBack(p) == pc[p] = "reloading" => HasCredentials(reread[p])

FileIInv ==
    /\ FileTypeInv
    /\ Surviving
    /\ NamesResolve
    /\ Granted
    /\ \A p \in Process : Saving(p) /\ Undisturbed(p) /\ ReadBack(p)

-----------------------------------------------------------------------------
(* Contents. *)

LEMMA ContentsForm ==
    ASSUME NEW c
    PROVE  c \in Contents <=> DOMAIN c \subseteq Entry /\ c \in [DOMAIN c -> Value]
  BY DEF Contents

LEMMA NothingForm == Nothing \in Contents /\ DOMAIN Nothing = {}
<1>1. Nothing \in [{} -> Value] /\ DOMAIN Nothing = {}
  BY DEF Nothing
<1>. QED
  BY <1>1, ContentsForm

LEMMA Unreadable ==
    /\ Missing \notin Contents /\ Blank \notin Contents /\ Garbled \notin Contents
    /\ Missing # Blank /\ Missing # Garbled
  BY ConfiguFileAssumption

(* What load renders has no placeholder left. *)
LEMMA RenderedForm ==
    ASSUME NEW p \in Process, NEW c, Loads(p, c)
    PROVE  /\ c \in Contents
           /\ Rendered(p, c) \in Contents /\ DOMAIN Rendered(p, c) = DOMAIN c
           /\ \A e \in DOMAIN c :
                 /\ Rendered(p, c)[e] # Placeholder
                 /\ c[e] = Placeholder => Rendered(p, c)[e] = Env[p]
                 /\ c[e] # Placeholder => Rendered(p, c)[e] = c[e]
<1>1. c \in Contents
  BY DEF Loads
<1>2. DOMAIN c \subseteq Entry /\ c \in [DOMAIN c -> Value]
  BY <1>1, ContentsForm
<1>3. \A e \in DOMAIN c : c[e] = Placeholder => Env[p] \in Value \ {Placeholder}
  BY ConfiguFileAssumption DEF Loads
<1>4. DOMAIN Rendered(p, c) = DOMAIN c /\ Rendered(p, c) \in [DOMAIN c -> Value]
  BY <1>2, <1>3 DEF Rendered
<1>5. Rendered(p, c) \in Contents
  BY <1>2, <1>4, ContentsForm
<1>6. \A e \in DOMAIN c :
         /\ Rendered(p, c)[e] # Placeholder
         /\ c[e] = Placeholder => Rendered(p, c)[e] = Env[p]
         /\ c[e] # Placeholder => Rendered(p, c)[e] = c[e]
  BY <1>3 DEF Rendered
<1>. QED
  BY <1>1, <1>4, <1>5, <1>6

LEMMA LoginForm ==
    ASSUME NEW old \in Contents, NEW c \in Credentials
    PROVE  /\ Login(old, c) \in Contents
           /\ DOMAIN Login(old, c) = DOMAIN old \cup {Platform}
           /\ Login(old, c)[Platform] = c
           /\ \A e \in DOMAIN old \ {Platform} : Login(old, c)[e] = old[e]
           /\ Login(old, c) = [e \in DOMAIN old \cup {Platform} |->
                                IF e = Platform THEN c ELSE old[e]]
<1>1. Platform \in Entry /\ c \in Value
  BY ConfiguFileAssumption DEF Entry
<1>2. DOMAIN old \subseteq Entry /\ old \in [DOMAIN old -> Value]
  BY ContentsForm
<1>. PICK new : new = Login(old, c)
  OBVIOUS
<1>3. new = [e \in DOMAIN old \cup {Platform} |-> IF e = Platform THEN c ELSE old[e]]
  BY DEF Login, Merge
<1>4. new \in Contents
  <2>1. new \in [DOMAIN new -> Value] /\ DOMAIN new \subseteq Entry
    BY <1>1, <1>2, <1>3
  <2>. QED
    BY <2>1, ContentsForm
<1>5. /\ DOMAIN new = DOMAIN old \cup {Platform} /\ new[Platform] = c
      /\ \A e \in DOMAIN old \ {Platform} : new[e] = old[e]
  BY <1>3
<1>. QED
  BY <1>3, <1>4, <1>5

LEMMA WholeRendered ==
    ASSUME NEW p \in Process, NEW c, Loads(p, c), Whole(c)
    PROVE  Whole(Rendered(p, c))
<1>. SUFFICES ASSUME NEW e \in DOMAIN original \ {Platform}
              PROVE  e \in DOMAIN Rendered(p, c) /\ Rendered(p, c)[e] \in Forms(e)
  BY DEF Whole
<1>1. e \in DOMAIN c /\ c[e] \in Forms(e)
  BY DEF Whole
<1>2. CASE c[e] = Placeholder
  <2>1. original[e] = Placeholder
    BY <1>1, <1>2 DEF Forms
  <2>2. Rendered(p, c)[e] = Env[p] /\ DOMAIN Rendered(p, c) = DOMAIN c
    BY <1>1, <1>2, RenderedForm
  <2>. QED
    BY <1>1, <2>1, <2>2 DEF Forms
<1>3. CASE c[e] # Placeholder
  BY <1>1, <1>3, RenderedForm
<1>. QED
  BY <1>2, <1>3

LEMMA WholeSaved ==
    ASSUME NEW old \in Contents, NEW c \in Credentials, Whole(old)
    PROVE  Whole(Login(old, c))
<1>1. /\ DOMAIN Login(old, c) = DOMAIN old \cup {Platform}
      /\ \A e \in DOMAIN old \ {Platform} : Login(old, c)[e] = old[e]
  BY LoginForm
<1>. QED
  BY <1>1 DEF Whole

LEMMA StaysWhole ==
    ASSUME original' = original, NEW c
    PROVE  Whole(c)' <=> Whole(c)
  BY DEF Whole, Forms

-----------------------------------------------------------------------------
(* Types. *)

LEMMA ConfiguredForm ==
    ASSUME FileTypeInv, NEW p \in Process, NEW name
    PROVE  Configured(p, name) \subseteq Value
<1>1. \A c \in Contents : Named(c, name) \subseteq Value
  <2>. SUFFICES ASSUME NEW c \in Contents, NEW v \in Named(c, name) PROVE v \in Value
    OBVIOUS
  <2>1. \E n \in DOMAIN c : v = c[n]
    BY DEF Named, DefaultNames
  <2>. QED
    BY <2>1, ContentsForm
<1>2. Input[p] \in Contents /\ local[p] \in Contents
  BY ConfiguFileAssumption DEF FileTypeInv
<1>. QED
  BY <1>1, <1>2 DEF Configured

LEMMA TypeInit == Init => FileTypeInv
<1>. SUFFICES ASSUME Init PROVE FileTypeInv
  OBVIOUS
<1>1. file \in Contents \cup {Missing} /\ original = file
  BY ConfiguFileAssumption DEF Init
<1>. QED
  BY <1>1, NothingForm DEF Init, FileTypeInv, Place

LEMMA TypeStep == FileTypeInv /\ [Next]_vars => FileTypeInv'
<1>. SUFFICES ASSUME FileTypeInv, [Next]_vars PROVE FileTypeInv'
  OBVIOUS
<1>1. CASE UNCHANGED vars
  BY <1>1 DEF FileTypeInv, vars
<1>2. ASSUME NEW p \in Process, Load(p)
      PROVE  FileTypeInv'
  <2>1. Loads(p, file) => Rendered(p, file) \in Contents
    BY RenderedForm
  <2>2. local' \in [Process -> Contents]
    BY <1>2, <2>1, NothingForm DEF Load, FileTypeInv
  <2>3. pc' \in [Process -> Place]
    BY <1>2 DEF Load, Goto, FileTypeInv, Place
  <2>4. harmed' \in BOOLEAN
    BY <1>2 DEF Load, FileTypeInv
  <2>. QED
    BY <1>2, <2>2, <2>3, <2>4 DEF Load, FileTypeInv
<1>3. ASSUME NEW p \in Process,
             Registered(p) \/ StoreIsMissing(p) \/ Reloaded(p) \/ ReloadFails(p)
      PROVE  FileTypeInv'
  BY <1>3 DEF Registered, StoreIsMissing, Reloaded, ReloadFails, Goto, FileTypeInv, Place
<1>4. ASSUME NEW p \in Process, RegisterFails(p)
      PROVE  FileTypeInv'
  BY <1>4, NothingForm DEF RegisterFails, Goto, FileTypeInv, Place
<1>5. ASSUME NEW p \in Process, Unlink(p)
      PROVE  FileTypeInv'
  BY <1>5 DEF Unlink, Writing, Disturbs, Goto, FileTypeInv, Place
<1>6. ASSUME NEW p \in Process, NEW name \in Store \cup {Undefined},
             UseStore(p, name) \/ UseType(p, name)
      PROVE  FileTypeInv'
  <2>1. PICK config \in Value \cup {ByType} : Choose(p, name, config)
    BY <1>6, ConfiguredForm DEF UseStore, UseType
  <2>2. [name |-> name, config |-> config] \in Choice
    BY DEF Choice
  <2>. QED
    BY <2>1, <2>2 DEF Choose, FileTypeInv
<1>7. ASSUME NEW p \in Process, NEW c \in Credentials, Save(p, c)
      PROVE  FileTypeInv'
  <2>1. Login(local[p], c) \in Contents
    BY LoginForm DEF FileTypeInv
  <2>2. saved' \in [Process -> Contents]
    BY <1>7, <2>1 DEF Save, FileTypeInv, Login
  <2>3. pc' \in [Process -> Place]
    BY <1>7 DEF Save, Goto, FileTypeInv, Place
  <2>. QED
    BY <1>7, <2>2, <2>3 DEF Save, Disturbs, FileTypeInv
<1>8. ASSUME NEW p \in Process, Write(p)
      PROVE  FileTypeInv'
  <2>1. file' \in Contents \cup {Missing, Blank, Garbled}
    BY <1>8 DEF Write, Outcomes, FileTypeInv
  <2>. QED
    BY <1>8, <2>1 DEF Write, Disturbs, Goto, FileTypeInv, Place
<1>9. ASSUME NEW p \in Process, Exit(p) \/ Crash(p)
      PROVE  FileTypeInv'
  BY <1>9, NothingForm DEF Exit, Crash, Gone, Goto, FileTypeInv, Place
<1>10. ASSUME NEW p \in Process, Reload(p)
       PROVE  FileTypeInv'
  <2>1. Loads(p, file) => Rendered(p, file) \in Contents
    BY RenderedForm
  <2>2. reread' \in [Process -> Contents]
    BY <1>10, <2>1 DEF Reload, FileTypeInv
  <2>3. pc' \in [Process -> Place]
    BY <1>10 DEF Reload, Goto, FileTypeInv, Place
  <2>. QED
    BY <1>10, <2>2, <2>3 DEF Reload, FileTypeInv
<1>. QED
  BY <1>1, <1>2, <1>3, <1>4, <1>5, <1>6, <1>7, <1>8, <1>9, <1>10 DEF Next

(* What no step takes back, and which steps choose a store. *)
LEMMA StepsOf ==
    ASSUME [Next]_vars, FileTypeInv
    PROVE  /\ original' = original /\ (harmed => harmed') /\ granted \subseteq granted'
           /\ \A r \in Process :
                 \/ chosen'[r] = chosen[r] \/ chosen'[r] = Undefined
                 \/ \E name \in Store \cup {Undefined} : UseStore(r, name) \/ UseType(r, name)
<1>0. chosen \in [Process -> Choice \cup {Undefined}]
  BY DEF FileTypeInv
<1>1. ASSUME chosen' = chosen, original' = original, harmed => harmed', granted \subseteq granted'
      PROVE  /\ original' = original /\ (harmed => harmed') /\ granted \subseteq granted'
             /\ \A r \in Process : chosen'[r] = chosen[r]
  BY <1>1
<1>2. CASE UNCHANGED vars
  BY <1>1, <1>2 DEF vars
<1>3. ASSUME NEW p \in Process, Load(p) \/ Registered(p) \/ RegisterFails(p) \/ Unlink(p)
      PROVE  chosen' = chosen /\ original' = original /\ (harmed => harmed') /\ granted' = granted
  <2>1. chosen' = chosen /\ original' = original /\ granted' = granted
    BY <1>3 DEF Load, Registered, RegisterFails, Unlink
  <2>2. \/ harmed' = harmed \/ harmed' = TRUE \/ harmed' = (harmed \/ file # Missing)
    BY <1>3 DEF Load, Registered, RegisterFails, Unlink
  <2>3. harmed => harmed'
    BY <2>2
  <2>. QED
    BY <2>1, <2>3
<1>4. ASSUME NEW p \in Process, NEW c \in Credentials, Save(p, c)
      PROVE  /\ chosen' = chosen /\ original' = original /\ harmed' = harmed
             /\ granted \subseteq granted'
  BY <1>4 DEF Save
<1>5. ASSUME NEW p \in Process, \/ StoreIsMissing(p) \/ Write(p)
                                \/ Reload(p) \/ Reloaded(p) \/ ReloadFails(p)
      PROVE  chosen' = chosen /\ original' = original /\ harmed' = harmed /\ granted' = granted
  BY <1>5 DEF StoreIsMissing, Write, Reload, Reloaded, ReloadFails
<1>6. ASSUME NEW p \in Process, Exit(p) \/ Crash(p)
      PROVE  /\ original' = original /\ harmed' = harmed /\ granted' = granted
             /\ \A r \in Process : chosen'[r] = chosen[r] \/ chosen'[r] = Undefined
  BY <1>0, <1>6 DEF Exit, Crash, Gone
<1>7. ASSUME NEW p \in Process, NEW name \in Store \cup {Undefined},
             UseStore(p, name) \/ UseType(p, name)
      PROVE  /\ original' = original /\ harmed' = harmed /\ granted' = granted
             /\ \A r \in Process : r # p => chosen'[r] = chosen[r]
  BY <1>0, <1>7 DEF UseStore, UseType, Choose
<1>. QED
  BY <1>1, <1>2, <1>3, <1>4, <1>5, <1>6, <1>7 DEF Next

-----------------------------------------------------------------------------
(* Saves. *)

LEMMA SavingInit == Init => \A p \in Process : Saving(p)
  BY NothingForm DEF Init, Saving, InSave

LEMMA SavingStep ==
    FileTypeInv /\ (\A p \in Process : Saving(p)) /\ [Next]_vars => \A p \in Process : Saving(p)'
<1>. SUFFICES ASSUME FileTypeInv, \A p \in Process : Saving(p), [Next]_vars, NEW r \in Process
              PROVE  Saving(r)'
  OBVIOUS
<1>0. Saving(r) /\ pc \in [Process -> Place] /\ local \in [Process -> Contents]
      /\ saved \in [Process -> Contents]
  BY DEF FileTypeInv
<1>1. ASSUME local'[r] = local[r], saved'[r] = saved[r], granted \subseteq granted',
             pc'[r] \in InSave => pc[r] \in InSave
      PROVE  Saving(r)'
  BY <1>0, <1>1 DEF Saving, Login, Merge
<1>2. CASE UNCHANGED vars
  BY <1>1, <1>2 DEF vars
<1>3. ASSUME NEW p \in Process, Load(p)
      PROVE  Saving(r)'
  <2>1. CASE r # p
    BY <1>0, <1>1, <1>3, <2>1 DEF Load, Goto
  <2>2. CASE r = p
    <3>1. pc'[r] \notin InSave
      BY <1>0, <1>3, <2>2 DEF Load, Goto, InSave
    <3>2. \/ Loads(r, file) /\ local'[r] = Rendered(r, file)
          \/ local'[r] = Nothing
      BY <1>0, <1>3, <2>2 DEF Load
    <3>3. \A e \in DOMAIN local'[r] : local'[r][e] # Placeholder
      BY <3>2, RenderedForm, NothingForm
    <3>. QED
      BY <3>1, <3>3 DEF Saving
  <2>. QED
    BY <2>1, <2>2
<1>4. ASSUME NEW p \in Process, \/ Registered(p) \/ StoreIsMissing(p) \/ Unlink(p)
                                \/ Reload(p) \/ Reloaded(p) \/ ReloadFails(p)
      PROVE  Saving(r)'
  BY <1>0, <1>1, <1>4 DEF Registered, StoreIsMissing, Unlink, Reload, Reloaded, ReloadFails, Goto,
                          InSave
<1>5. ASSUME NEW p \in Process, RegisterFails(p)
      PROVE  Saving(r)'
  BY <1>0, <1>1, <1>5, NothingForm DEF RegisterFails, Goto, Saving, InSave
<1>6. ASSUME NEW p \in Process, NEW name \in Store \cup {Undefined},
             UseStore(p, name) \/ UseType(p, name)
      PROVE  Saving(r)'
  BY <1>1, <1>6 DEF UseStore, UseType, Choose
<1>7. ASSUME NEW p \in Process, NEW c \in Credentials, Save(p, c)
      PROVE  Saving(r)'
  <2>1. /\ local' = local /\ saved' = [saved EXCEPT ![p] = Login(local[p], c)]
        /\ granted' = granted \cup {c} /\ pc' = [pc EXCEPT ![p] = "writing"]
    BY <1>7 DEF Save, Goto, Login
  <2>2. CASE r # p
    BY <1>0, <1>1, <2>1, <2>2
  <2>3. CASE r = p
    <3>1. saved'[r] = Login(local[r], c) /\ local'[r] = local[r] /\ c \in granted'
      BY <1>0, <2>1, <2>3
    <3>2. Login(local[r], c) = Login(local'[r], c)
      BY <3>1
    <3>. QED
      BY <1>0, <3>1, <3>2 DEF Saving
  <2>. QED
    BY <2>2, <2>3
<1>8. ASSUME NEW p \in Process, Write(p)
      PROVE  Saving(r)'
  BY <1>0, <1>1, <1>8 DEF Write, Goto, InSave
<1>9. ASSUME NEW p \in Process, Exit(p) \/ Crash(p)
      PROVE  Saving(r)'
  <2>1. /\ local' = [local EXCEPT ![p] = Nothing] /\ saved' = [saved EXCEPT ![p] = Nothing]
        /\ pc' = [pc EXCEPT ![p] = "idle"] /\ granted' = granted
    BY <1>9 DEF Exit, Crash, Gone, Goto
  <2>2. CASE r # p
    BY <1>0, <1>1, <2>1, <2>2
  <2>3. CASE r = p
    BY <1>0, <2>1, <2>3, NothingForm DEF Saving, InSave
  <2>. QED
    BY <2>2, <2>3
<1>. QED
  BY <1>2, <1>3, <1>4, <1>5, <1>6, <1>7, <1>8, <1>9 DEF Next

LEMMA UndisturbedInit == Init => \A p \in Process : Undisturbed(p)
  BY DEF Init, Undisturbed

LEMMA UndisturbedStep ==
    FileTypeInv /\ (\A p \in Process : Undisturbed(p)) /\ [Next]_vars
        => \A p \in Process : Undisturbed(p)'
<1>. SUFFICES ASSUME FileTypeInv, \A p \in Process : Undisturbed(p), [Next]_vars,
                     NEW r \in Process
              PROVE  Undisturbed(r)'
  OBVIOUS
<1>0. /\ Undisturbed(r) /\ pc \in [Process -> Place] /\ saved \in [Process -> Contents]
      /\ reread \in [Process -> Contents]
  BY DEF FileTypeInv
<1>1. ASSUME pc'[r] \in InSave => pc'[r] = pc[r], file' = file, saved'[r] = saved[r],
             reread'[r] = reread[r],
             r \in detached' => r \in detached, r \in disturbed => r \in disturbed'
      PROVE  Undisturbed(r)'
  BY <1>0, <1>1 DEF Undisturbed, InSave
<1>2. CASE UNCHANGED vars
  BY <1>1, <1>2 DEF vars
<1>3. ASSUME NEW p \in Process, Load(p) \/ RegisterFails(p)
      PROVE  Undisturbed(r)'
  BY <1>0, <1>1, <1>3 DEF Load, RegisterFails, Goto, InSave
<1>4. ASSUME NEW p \in Process,
             Registered(p) \/ StoreIsMissing(p) \/ Reloaded(p) \/ ReloadFails(p)
      PROVE  Undisturbed(r)'
  BY <1>0, <1>1, <1>4 DEF Registered, StoreIsMissing, Reloaded, ReloadFails, Goto, InSave
<1>5. ASSUME NEW p \in Process, Unlink(p)
      PROVE  Undisturbed(r)'
  BY <1>0, <1>5 DEF Unlink, Disturbs, Goto, Undisturbed
<1>6. ASSUME NEW p \in Process, NEW name \in Store \cup {Undefined},
             UseStore(p, name) \/ UseType(p, name)
      PROVE  Undisturbed(r)'
  BY <1>1, <1>6 DEF UseStore, UseType, Choose
<1>7. ASSUME NEW p \in Process, NEW c \in Credentials, Save(p, c)
      PROVE  Undisturbed(r)'
  <2>1. /\ file' = Blank /\ detached' = detached \ {p}
        /\ disturbed' = (disturbed \ {p}) \cup Disturbs(p) \cup {q \in {p} : Disturbs(p) # {}}
        /\ pc' = [pc EXCEPT ![p] = "writing"] /\ reread' = reread
    BY <1>7 DEF Save, Goto
  <2>2. CASE r # p
    BY <1>0, <2>1, <2>2 DEF Disturbs, Undisturbed
  <2>3. CASE r = p
    BY <1>0, <2>1, <2>3 DEF Undisturbed
  <2>. QED
    BY <2>2, <2>3
<1>8. ASSUME NEW p \in Process, Write(p)
      PROVE  Undisturbed(r)'
  <2>1. /\ pc[p] = "writing" /\ pc' = [pc EXCEPT ![p] = "written"] /\ saved' = saved
        /\ reread' = reread
        /\ detached' = detached /\ disturbed' = disturbed \cup Disturbs(p)
        /\ p \in detached \/ file' \in Outcomes(saved[p])
    BY <1>8 DEF Write, Goto
  <2>2. CASE r # p
    BY <1>0, <2>1, <2>2 DEF Disturbs, Undisturbed
  <2>3. CASE r = p
    <3>. SUFFICES ASSUME r \notin disturbed' PROVE file' = saved'[r]
      BY <1>0, <2>1, <2>3 DEF Undisturbed
    <3>1. file = Blank /\ p \notin detached
      BY <1>0, <2>1, <2>3 DEF Undisturbed
    <3>. QED
      BY <2>1, <2>3, <3>1 DEF Outcomes
  <2>. QED
    BY <2>2, <2>3
<1>9. ASSUME NEW p \in Process, Exit(p) \/ Crash(p)
      PROVE  Undisturbed(r)'
  <2>1. /\ pc' = [pc EXCEPT ![p] = "idle"] /\ saved' = [saved EXCEPT ![p] = Nothing]
        /\ reread' = [reread EXCEPT ![p] = Nothing]
        /\ file' = file /\ detached' = detached \ {p} /\ disturbed' = disturbed \ {p}
    BY <1>9 DEF Exit, Crash, Gone, Goto
  <2>2. CASE r # p
    BY <1>0, <1>1, <2>1, <2>2
  <2>3. CASE r = p
    BY <1>0, <2>1, <2>3 DEF Undisturbed
  <2>. QED
    BY <2>2, <2>3
<1>10. ASSUME NEW p \in Process, Reload(p)
       PROVE  Undisturbed(r)'
  <2>1. /\ file' = file /\ saved' = saved /\ detached' = detached /\ disturbed' = disturbed
        /\ pc[p] = "written"
    BY <1>10 DEF Reload
  <2>2. CASE r # p
    <3>1. pc'[r] = pc[r] /\ reread'[r] = reread[r]
      BY <1>0, <1>10, <2>2 DEF Reload, Goto
    <3>. QED
      BY <1>1, <2>1, <3>1
  <2>3. CASE r = p /\ Loads(p, file)
    <3>1. pc'[r] = "reloading" /\ reread'[r] = Rendered(p, file)
      BY <1>0, <1>10, <2>3 DEF Reload, Goto
    <3>2. DOMAIN reread'[r] = DOMAIN file
      BY <2>3, <3>1, RenderedForm
    <3>3. r \notin disturbed => file = saved[r]
      BY <1>0, <2>1, <2>3 DEF Undisturbed
    <3>. QED
      BY <2>1, <3>1, <3>2, <3>3 DEF Undisturbed
  <2>4. CASE r = p /\ ~Loads(p, file)
    <3>1. pc'[r] = "failed"
      BY <1>0, <1>10, <2>4 DEF Reload, Goto
    <3>. QED
      BY <3>1 DEF Undisturbed
  <2>. QED
    BY <2>2, <2>3, <2>4
<1>. QED
  BY <1>2, <1>3, <1>4, <1>5, <1>6, <1>7, <1>8, <1>9, <1>10 DEF Next

(* Credentials. *)
LEMMA GrantedInit == Init => Granted
  BY DEF Init, Granted

LEMMA GrantedStep ==
    FileTypeInv /\ Granted /\ (\A p \in Process : Saving(p)) /\ [Next]_vars => Granted'
<1>. SUFFICES ASSUME FileTypeInv, Granted, \A p \in Process : Saving(p), [Next]_vars
              PROVE  Granted'
  OBVIOUS
<1>1. CASE UNCHANGED <<file, granted>>
  BY <1>1 DEF Granted
<1>2. ASSUME file' \notin Contents
      PROVE  Granted'
  BY <1>2 DEF Granted
<1>3. ASSUME NEW p \in Process, Write(p)
      PROVE  Granted'
  <2>1. pc[p] = "writing" /\ granted' = granted /\ file' \in {file, saved[p], Garbled}
    BY <1>3 DEF Write, Outcomes
  <2>2. PICK c \in granted : saved[p] = Login(local[p], c)
    BY <2>1 DEF Saving, InSave
  <2>3. Platform \in DOMAIN saved[p] /\ saved[p][Platform] = c
    <3>1. local[p] \in Contents /\ c \in Credentials
      BY DEF FileTypeInv
    <3>2. Platform \in DOMAIN Login(local[p], c) /\ Login(local[p], c)[Platform] = c
      BY <3>1, LoginForm
    <3>. QED
      BY <2>2, <3>2
  <2>. QED
    BY <2>1, <2>3, Unreadable DEF Granted
<1>4. ASSUME NEW p \in Process, NEW c \in Credentials, Save(p, c)
      PROVE  Granted'
  BY <1>2, <1>4, Unreadable DEF Save
<1>5. ASSUME NEW p \in Process, Unlink(p)
      PROVE  Granted'
  BY <1>2, <1>5, Unreadable DEF Unlink
<1>. QED
  BY <1>1, <1>3, <1>4, <1>5 DEF Next, vars, Load, Registered, RegisterFails, UseStore, UseType,
     Choose, StoreIsMissing, Reload, Reloaded, ReloadFails, Exit, Crash, Gone

LEMMA ReadBackInit == Init => \A p \in Process : ReadBack(p)
  BY DEF Init, ReadBack

LEMMA ReadBackStep ==
    FileTypeInv /\ Granted /\ (\A p \in Process : Saving(p) /\ ReadBack(p)) /\ [Next]_vars
        => \A p \in Process : ReadBack(p)'
<1>. SUFFICES ASSUME FileTypeInv, Granted, \A p \in Process : Saving(p) /\ ReadBack(p),
                     [Next]_vars, NEW r \in Process, pc'[r] = "reloading"
              PROVE  HasCredentials(reread[r])'
  BY DEF ReadBack
<1>0. /\ pc \in [Process -> Place] /\ reread \in [Process -> Contents]
      /\ granted \subseteq granted'
  BY StepsOf DEF FileTypeInv
<1>1. \/ pc[r] = "reloading" /\ reread'[r] = reread[r]
      \/ Reload(r)
  <2>1. CASE UNCHANGED vars
    BY <2>1 DEF vars
  <2>2. ASSUME NEW p \in Process, Load(p) \/ Registered(p) \/ RegisterFails(p) \/ Unlink(p)
        PROVE  pc[r] = "reloading" /\ reread'[r] = reread[r]
    BY <1>0, <2>2 DEF Load, Registered, RegisterFails, Unlink, Goto
  <2>3. ASSUME NEW p \in Process, NEW name \in Store \cup {Undefined},
               UseStore(p, name) \/ UseType(p, name)
        PROVE  pc[r] = "reloading" /\ reread'[r] = reread[r]
    BY <2>3 DEF UseStore, UseType, Choose
  <2>4. ASSUME NEW p \in Process, NEW c \in Credentials, Save(p, c)
        PROVE  pc[r] = "reloading" /\ reread'[r] = reread[r]
    BY <1>0, <2>4 DEF Save, Goto
  <2>5. ASSUME NEW p \in Process, StoreIsMissing(p) \/ Write(p) \/ Reloaded(p) \/ ReloadFails(p)
        PROVE  pc[r] = "reloading" /\ reread'[r] = reread[r]
    BY <1>0, <2>5 DEF StoreIsMissing, Write, Reloaded, ReloadFails, Goto
  <2>6. ASSUME NEW p \in Process, Exit(p) \/ Crash(p)
        PROVE  pc[r] = "reloading" /\ reread'[r] = reread[r]
    <3>1. pc' = [pc EXCEPT ![p] = "idle"] /\ reread' = [reread EXCEPT ![p] = Nothing]
      BY <2>6 DEF Exit, Crash, Gone, Goto
    <3>2. r # p
      BY <1>0, <3>1
    <3>. QED
      BY <1>0, <3>1, <3>2
  <2>7. ASSUME NEW p \in Process, p # r, Reload(p)
        PROVE  pc[r] = "reloading" /\ reread'[r] = reread[r]
    BY <1>0, <2>7 DEF Reload, Goto
  <2>. QED
    BY <2>1, <2>2, <2>3, <2>4, <2>5, <2>6, <2>7 DEF Next
<1>2. CASE pc[r] = "reloading" /\ reread'[r] = reread[r]
  BY <1>0, <1>2 DEF ReadBack, HasCredentials
<1>3. CASE Reload(r)
  <2>1. pc[r] = "written" /\ Loads(r, file) /\ reread'[r] = Rendered(r, file) /\ granted' = granted
    BY <1>0, <1>3 DEF Reload, Goto
  <2>2. granted # {}
    BY <2>1 DEF Saving, InSave
  <2>3. file \in Contents /\ Platform \in DOMAIN file /\ file[Platform] \in granted
    BY <2>1, <2>2 DEF Loads, Granted
  <2>4. file[Platform] # Placeholder
    BY <2>3, ConfiguFileAssumption DEF FileTypeInv
  <2>5. Platform \in DOMAIN Rendered(r, file) /\ Rendered(r, file)[Platform] = file[Platform]
    BY <2>1, <2>3, <2>4, RenderedForm
  <2>. QED
    BY <2>1, <2>3, <2>5 DEF HasCredentials
<1>. QED
  BY <1>1, <1>2, <1>3

-----------------------------------------------------------------------------
(* Entries. *)

LEMMA SurvivingInit == Init => Surviving
<1>. SUFFICES ASSUME Init, original # Missing PROVE Surviving
  BY DEF Surviving
<1>1. file = original /\ \A p \in Process : pc[p] = "idle"
  BY DEF Init
<1>2. Whole(original)
  BY DEF Whole, Forms
<1>. QED
  BY <1>1, <1>2 DEF Surviving

LEMMA SurvivingStep ==
    FileTypeInv /\ Surviving /\ (\A p \in Process : Saving(p)) /\ [Next]_vars => Surviving'
<1>. SUFFICES ASSUME FileTypeInv, Surviving, \A p \in Process : Saving(p), [Next]_vars,
                     original' # Missing, ~harmed'
              PROVE  /\ file' # Missing
                     /\ file' \in Contents => Whole(file)'
                     /\ \A r \in Process :
                           /\ pc'[r] # "broken"
                           /\ pc'[r] # "idle" => Whole(local[r])'
                           /\ pc'[r] \in {"writing", "written"} => Whole(saved[r])'
  BY DEF Surviving
<1>0. /\ original' = original /\ ~harmed
      /\ pc \in [Process -> Place] /\ local \in [Process -> Contents]
      /\ saved \in [Process -> Contents]
  BY StepsOf DEF FileTypeInv
<1>1. /\ file # Missing
      /\ file \in Contents => Whole(file)
      /\ \A r \in Process :
            /\ pc[r] # "broken"
            /\ pc[r] # "idle" => Whole(local[r])
            /\ pc[r] \in {"writing", "written"} => Whole(saved[r])
  BY <1>0 DEF Surviving
<1>2. \A c : Whole(c)' <=> Whole(c)
  BY <1>0, StaysWhole
<1>3. ASSUME file' = file
      PROVE  file' # Missing /\ (file' \in Contents => Whole(file)')
  BY <1>0, <1>1, <1>3 DEF Whole, Forms
<1>4. ASSUME NEW r \in Process, local'[r] = local[r], pc[r] # "idle"
      PROVE  Whole(local[r])'
  BY <1>0, <1>1, <1>4 DEF Whole, Forms
<1>5. ASSUME NEW r \in Process, saved'[r] = saved[r], pc[r] \in {"writing", "written"}
      PROVE  Whole(saved[r])'
  BY <1>0, <1>1, <1>5 DEF Whole, Forms
<1>. DEFINE Fine(r) == /\ pc'[r] # "broken"
                       /\ pc'[r] # "idle" => Whole(local[r])'
                       /\ pc'[r] \in {"writing", "written"} => Whole(saved[r])'
<1>6. ASSUME NEW r \in Process, local'[r] = local[r], saved'[r] = saved[r], pc'[r] = pc[r]
      PROVE  Fine(r)
  BY <1>1, <1>4, <1>5, <1>6
<1>7. CASE UNCHANGED vars
  BY <1>3, <1>6, <1>7 DEF vars
<1>8. ASSUME NEW p \in Process, Load(p)
      PROVE  file' = file /\ \A r \in Process : Fine(r)
  <2>1. /\ file' = file /\ saved' = saved /\ Loads(p, file)
        /\ local' = [local EXCEPT ![p] = Rendered(p, file)]
        /\ pc' = [pc EXCEPT ![p] = "registering"]
    BY <1>1, <1>8 DEF Load, Goto
  <2>2. file \in Contents
    BY <2>1 DEF Loads
  <2>. PICK f : f = file
    OBVIOUS
  <2>3. Whole(Rendered(p, f))
    BY <1>1, <2>1, <2>2, WholeRendered
  <2>4. Whole(Rendered(p, f))'
    BY <1>2, <2>3
  <2>5. Whole(local[p])'
    BY <1>0, <2>1, <2>4 DEF Whole, Forms, Rendered
  <2>. QED
    BY <1>0, <1>6, <2>1, <2>5
<1>9. ASSUME NEW p \in Process, \/ Registered(p) \/ StoreIsMissing(p)
                                \/ Reload(p) \/ Reloaded(p) \/ ReloadFails(p)
      PROVE  file' = file /\ \A r \in Process : Fine(r)
  <2>1. /\ file' = file /\ saved' = saved /\ local' = local /\ pc[p] # "idle"
        /\ \E s \in {"running", "reloading", "failed", "loggedIn"} : pc' = [pc EXCEPT ![p] = s]
    BY <1>9 DEF Registered, StoreIsMissing, Reload, Reloaded, ReloadFails, Goto
  <2>2. Fine(p)
    BY <1>0, <1>4, <2>1
  <2>. QED
    BY <1>0, <1>6, <2>1, <2>2
<1>10. ASSUME NEW p \in Process, RegisterFails(p) \/ Unlink(p)
       PROVE  FALSE
  BY <1>1, <1>10 DEF RegisterFails, Unlink
<1>11. ASSUME NEW p \in Process, NEW name \in Store \cup {Undefined},
              UseStore(p, name) \/ UseType(p, name)
       PROVE  file' = file /\ \A r \in Process : Fine(r)
  BY <1>6, <1>11 DEF UseStore, UseType, Choose
<1>12. ASSUME NEW p \in Process, NEW c \in Credentials, Save(p, c)
       PROVE  file' = Blank /\ \A r \in Process : Fine(r)
  <2>1. /\ file' = Blank /\ local' = local /\ pc[p] = "running"
        /\ saved' = [saved EXCEPT ![p] = Login(local[p], c)]
        /\ pc' = [pc EXCEPT ![p] = "writing"]
    BY <1>12 DEF Save, Goto, Login
  <2>. PICK old \in Contents : old = local[p]
    BY <1>0
  <2>2. Whole(Login(old, c))
    BY <1>1, <2>1, WholeSaved
  <2>3. Whole(Login(old, c))'
    BY <1>2, <2>2
  <2>4. Whole(saved[p])'
    <3>1. saved'[p] = Login(old, c)
      BY <1>0, <2>1
    <3>. QED
      BY <2>3, <3>1 DEF Whole, Forms, Login, Merge
  <2>5. Fine(p)
    BY <1>0, <1>4, <2>1, <2>4
  <2>. QED
    BY <1>0, <1>6, <2>1, <2>5
<1>13. ASSUME NEW p \in Process, Write(p)
       PROVE  /\ file' # Missing /\ (file' \in Contents => Whole(file)')
              /\ \A r \in Process : Fine(r)
  <2>1. /\ saved' = saved /\ local' = local /\ pc[p] = "writing"
        /\ file' \in {file, saved[p], Garbled} /\ pc' = [pc EXCEPT ![p] = "written"]
    BY <1>13 DEF Write, Outcomes, Goto
  <2>2. file' # Missing /\ (file' \in Contents => Whole(file)')
    <3>1. CASE file' = saved[p]
      <4>1. Whole(saved[p])' /\ saved'[p] = file' /\ file' \in Contents
        BY <1>0, <1>5, <2>1, <3>1
      <4>. QED
        BY <4>1, Unreadable DEF Whole, Forms
    <3>2. CASE file' = Garbled
      BY <3>2, Unreadable
    <3>. QED
      BY <1>3, <2>1, <3>1, <3>2
  <2>3. Fine(p)
    BY <1>0, <1>4, <1>5, <2>1
  <2>. QED
    BY <1>0, <1>6, <2>1, <2>2, <2>3
<1>14. ASSUME NEW p \in Process, Exit(p) \/ Crash(p)
       PROVE  file' = file /\ \A r \in Process : Fine(r)
  <2>1. /\ file' = file /\ pc' = [pc EXCEPT ![p] = "idle"]
        /\ local' = [local EXCEPT ![p] = Nothing] /\ saved' = [saved EXCEPT ![p] = Nothing]
    BY <1>14 DEF Exit, Crash, Gone, Goto
  <2>. QED
    BY <1>0, <1>6, <2>1
<1>. QED
  BY <1>3, <1>7, <1>8, <1>9, <1>10, <1>11, <1>12, <1>13, <1>14, Unreadable DEF Next

-----------------------------------------------------------------------------
(* Names. *)

LEMMA NamesInit == Init => NamesResolve
  BY DEF Init, NamesResolve

(* What the name of a store stands for, while the file loads. *)
LEMMA ConfiguredNames ==
    ASSUME FileTypeInv, Surviving, NEW p \in Process, pc[p] = "running", NEW n \in Store
    PROVE  /\ n \in DOMAIN Input[p] => Configured(p, n) = {Input[p][n]}
           /\ n \notin DOMAIN Input[p] /\ original # Missing /\ ~harmed
              /\ n \in DOMAIN original \ {Platform} =>
                 Configured(p, n) = {local[p][n]} /\ local[p][n] \in Forms(n)
<1>1. n # Undefined
  BY ConfiguFileAssumption
<1>2. \A c : Named(c, n) = {c[m] : m \in DOMAIN c \cap {n}}
  BY <1>1 DEF Named
<1>3. \A c : /\ n \in DOMAIN c => Named(c, n) = {c[n]}
             /\ n \notin DOMAIN c => Named(c, n) = {}
  BY <1>2
<1>4. original # Missing /\ ~harmed => Whole(local[p])
  BY DEF Surviving
<1>5. original # Missing /\ ~harmed /\ n \in DOMAIN original \ {Platform} =>
         n \in DOMAIN local[p] /\ local[p][n] \in Forms(n)
  BY <1>4 DEF Whole
<1>. QED
  BY <1>3, <1>5 DEF Configured

LEMMA NamesStep == FileTypeInv /\ Surviving /\ NamesResolve /\ [Next]_vars => NamesResolve'
<1>. SUFFICES ASSUME FileTypeInv, Surviving, NamesResolve, [Next]_vars,
                     NEW r \in Process, NEW n \in Store,
                     chosen'[r] # Undefined, chosen'[r].name = n
              PROVE  IF n \in DOMAIN Input[r] THEN chosen'[r].config = Input[r][n]
                     ELSE original' # Missing /\ ~harmed' /\ n \in DOMAIN original' \ {Platform}
                             => chosen'[r].config \in Forms(n)'
  BY DEF NamesResolve
<1>0. /\ original' = original /\ (harmed => harmed') /\ Forms(n)' = Forms(n)
      /\ chosen \in [Process -> Choice \cup {Undefined}]
  BY StepsOf DEF FileTypeInv, Forms
<1>1. CASE chosen'[r] = chosen[r]
  BY <1>0, <1>1 DEF NamesResolve
<1>2. ASSUME NEW p \in Process, NEW name \in Store \cup {Undefined}, p = r,
             UseStore(p, name)
      PROVE  IF n \in DOMAIN Input[r] THEN chosen'[r].config = Input[r][n]
             ELSE original # Missing /\ ~harmed /\ n \in DOMAIN original \ {Platform}
                     => chosen'[r].config \in Forms(n)
  <2>1. PICK config \in Configured(p, name) : Choose(p, name, config)
    BY <1>2 DEF UseStore
  <2>2. chosen'[r] = [name |-> name, config |-> config] /\ pc[r] = "running"
    BY <1>0, <1>2, <2>1 DEF Choose
  <2>3. name = n /\ config \in Configured(r, n) /\ chosen'[r].config = config
    BY <1>2, <2>1, <2>2
  <2>. QED
    BY <2>2, <2>3, ConfiguredNames
<1>3. ASSUME NEW p \in Process, NEW name \in Store \cup {Undefined}, p = r,
             UseType(p, name)
      PROVE  /\ n \notin DOMAIN Input[r]
             /\ ~(original # Missing /\ ~harmed /\ n \in DOMAIN original \ {Platform})
  <2>1. Configured(p, name) = {} /\ Choose(p, name, ByType)
    BY <1>3 DEF UseType
  <2>2. chosen'[r] = [name |-> name, config |-> ByType] /\ pc[r] = "running"
    BY <1>0, <1>3, <2>1 DEF Choose
  <2>3. name = n /\ Configured(r, n) = {}
    BY <1>3, <2>1, <2>2
  <2>. QED
    BY <2>2, <2>3, ConfiguredNames
<1>4. \/ chosen'[r] = chosen[r] \/ chosen'[r] = Undefined
      \/ \E name \in Store \cup {Undefined} : UseStore(r, name) \/ UseType(r, name)
  BY StepsOf
<1>. QED
  BY <1>0, <1>1, <1>2, <1>3, <1>4

(* Only save's own load ends a save. *)
LEMMA SavesEndByReload ==
    ASSUME FileTypeInv, [Next]_vars, NEW p \in Process,
           pc'[p] \in {"loggedIn", "failed"}, pc'[p] # pc[p]
    PROVE  /\ \/ StoreIsMissing(p) /\ pc[p] = "running" /\ pc'[p] = "failed"
              \/ Reload(p) /\ pc[p] = "written" /\ pc'[p] = "failed"
              \/ Reloaded(p) /\ pc[p] = "reloading" /\ pc'[p] = "loggedIn"
              \/ ReloadFails(p) /\ pc[p] = "reloading" /\ pc'[p] = "failed"
           /\ UNCHANGED <<file, granted>>
<1>1. pc \in [Process -> Place]
  BY DEF FileTypeInv
<1>2. ~UNCHANGED vars
  BY DEF vars
<1>3. PICK q \in Process :
         \/ Load(q) \/ Registered(q) \/ RegisterFails(q) \/ Unlink(q)
         \/ \E name \in Store \cup {Undefined} : UseStore(q, name) \/ UseType(q, name)
         \/ StoreIsMissing(q)
         \/ \E credentials \in Credentials : Save(q, credentials)
         \/ Write(q) \/ Reload(q) \/ Reloaded(q) \/ ReloadFails(q)
         \/ Exit(q)
         \/ Crash(q)
  BY <1>2, Zenon DEF Next
<1>4. ~Load(q)
  BY <1>1 DEF Load, Goto
<1>5. ~Registered(q)
  BY <1>1 DEF Registered, Goto
<1>6. ~RegisterFails(q)
  BY <1>1 DEF RegisterFails, Goto
<1>7. ~Unlink(q)
  BY <1>1 DEF Unlink, Goto
<1>8. ASSUME NEW name PROVE ~UseStore(q, name) /\ ~UseType(q, name)
  BY DEF UseStore, UseType, Choose
<1>9. ASSUME NEW credentials PROVE ~Save(q, credentials)
  BY <1>1 DEF Save, Goto
<1>10. ~Write(q)
  BY <1>1 DEF Write, Goto
<1>11. ~Exit(q)
  BY <1>1 DEF Exit, Gone, Goto
<1>12. ~Crash(q)
  BY <1>1 DEF Crash, Gone, Goto
<1>13. StoreIsMissing(q) \/ Reload(q) \/ Reloaded(q) \/ ReloadFails(q)
  BY <1>3, <1>4, <1>5, <1>6, <1>7, <1>8, <1>9, <1>10, <1>11, <1>12, Zenon
<1>14. q = p
  BY <1>1, <1>13 DEF StoreIsMissing, Reload, Reloaded, ReloadFails, Goto
<1>15. CASE StoreIsMissing(p)
  BY <1>1, <1>15 DEF StoreIsMissing, Goto
<1>16. CASE Reload(p)
  BY <1>1, <1>16 DEF Reload, Goto
<1>17. CASE Reloaded(p)
  BY <1>1, <1>17 DEF Reloaded, Goto
<1>18. CASE ReloadFails(p)
  BY <1>1, <1>18 DEF ReloadFails, Goto
<1>. QED
  BY <1>13, <1>14, <1>15, <1>16, <1>17, <1>18

-----------------------------------------------------------------------------

(* In every reachable state what is in the file, in memory and about to be *)
(* written agrees with the original file and the credentials obtained.     *)
THEOREM FileInvariant == Spec => []FileIInv
<1>1. Init => FileIInv
  BY TypeInit, SurvivingInit, NamesInit, GrantedInit, SavingInit, UndisturbedInit, ReadBackInit
  DEF FileIInv
<1>2. FileIInv /\ [Next]_vars => FileIInv'
  BY TypeStep, SurvivingStep, NamesStep, GrantedStep, SavingStep, UndisturbedStep, ReadBackStep
  DEF FileIInv
<1>. QED
  BY <1>1, <1>2, PTL DEF Spec

(* Saves may overlap, overtake each other and die: unless a process failed *)
(* to load the file, every readable file has all entries of the original   *)
(* one, but for the credentials (ConfiguFile.save, initConfig).            *)
THEOREM EntriesLast == Spec => []EntriesSurvive
<1>1. FileIInv => EntriesSurvive
  BY DEF FileIInv, Surviving, Whole, EntriesSurvive
<1>. QED
  BY <1>1, FileInvariant, PTL

(* A store's name means the store of the project's file, or else the one   *)
(* of the local file, and never a type (ConfiguInterface.getStoreInstance).*)
THEOREM NamesMeanStores == Spec => []NamesResolve
<1>1. FileIInv => NamesResolve
  BY DEF FileIInv
<1>. QED
  BY <1>1, FileInvariant, PTL

(* A login that is reported to have succeeded has read credentials of some *)
(* login back, and leaves some in every file that can be read, whatever    *)
(* other processes save meanwhile: once one has begun to save, the file    *)
(* never holds others.  Only if somebody touched it may it be unreadable   *)
(* (ConfiguFile.save, load, initConfig).                                   *)
THEOREM LoginStores == Spec => LoginIsStored
<1>1. ASSUME FileIInv, [Next]_vars, NEW p \in Process, pc[p] # "loggedIn", pc'[p] = "loggedIn"
      PROVE  /\ HasCredentials(reread[p])
             /\ IF file' \in Contents THEN HasCredentials(file') ELSE p \in disturbed
  <2>1. Reloaded(p) /\ pc[p] = "reloading" /\ file' = file
    BY <1>1, SavesEndByReload DEF FileIInv
  <2>2. HasCredentials(reread[p])
    BY <1>1, <2>1 DEF FileIInv, ReadBack
  <2>3. granted # {}
    BY <1>1, <2>1 DEF FileIInv, Saving, InSave
  <2>4. CASE file' \in Contents
    BY <1>1, <2>1, <2>2, <2>3, <2>4 DEF FileIInv, Granted, HasCredentials
  <2>5. CASE file' \notin Contents
    <3>1. saved[p] \in Contents
      BY <1>1 DEF FileIInv, FileTypeInv
    <3>2. p \in disturbed
      BY <1>1, <2>1, <2>5, <3>1 DEF FileIInv, Undisturbed
    <3>. QED
      BY <2>2, <2>5, <3>2
  <2>. QED
    BY <2>4, <2>5
<1>2. FileIInv /\ [Next]_vars =>
        [\A p \in Process :
            pc[p] # "loggedIn" /\ pc'[p] = "loggedIn" =>
                /\ HasCredentials(reread[p])
                /\ IF file' \in Contents THEN HasCredentials(file') ELSE p \in disturbed]_vars
  BY <1>1
<1>. QED
  BY <1>2, FileInvariant, PTL DEF Spec, LoginIsStored

(* A login during whose save nobody touched the file leaves what it had    *)
(* loaded, with new credentials, and succeeds, for what it wrote can be    *)
(* loaded again: it fails only if a module listed there is not registered. *)
THEOREM LoginKeeps == Spec => LoginIsKept
<1>1. ASSUME FileIInv, [Next]_vars, NEW p \in Process \ disturbed,
             pc[p] \in {"written", "reloading"}, pc'[p] \in {"loggedIn", "failed"}
      PROVE  /\ pc'[p] = "failed" => pc[p] = "reloading" /\ Register \in DOMAIN local[p]
             /\ file'[Platform] \in granted
             /\ file' = [e \in DOMAIN local[p] \cup {Platform} |->
                            IF e = Platform THEN file'[Platform] ELSE local[p][e]]
  <2>1. /\ \/ Reload(p) /\ pc[p] = "written" /\ pc'[p] = "failed"
           \/ Reloaded(p) /\ pc[p] = "reloading" /\ pc'[p] = "loggedIn"
           \/ ReloadFails(p) /\ pc[p] = "reloading" /\ pc'[p] = "failed"
        /\ file' = file
    BY <1>1, SavesEndByReload DEF FileIInv
  <2>2. /\ file = saved[p] /\ Saving(p) /\ FileTypeInv
        /\ pc[p] = "reloading" => DOMAIN reread[p] = DOMAIN saved[p]
    BY <1>1 DEF FileIInv, Undisturbed
  <2>3. PICK c \in granted : saved[p] = Login(local[p], c)
    BY <1>1, <2>2 DEF Saving, InSave
  <2>4. PICK old \in Contents : old = local[p]
    BY <2>2 DEF FileTypeInv
  <2>5. c \in Credentials
    BY <2>2 DEF FileTypeInv
  <2>6. file = Login(old, c)
    BY <2>2, <2>3, <2>4
  <2>7. /\ file \in Contents /\ DOMAIN file = DOMAIN old \cup {Platform} /\ file[Platform] = c
        /\ \A e \in DOMAIN old \ {Platform} : file[e] = old[e]
        /\ file = [e \in DOMAIN old \cup {Platform} |-> IF e = Platform THEN c ELSE old[e]]
    BY <2>5, <2>6, LoginForm
  <2>8. \A e \in DOMAIN file : file[e] # Placeholder
    BY <2>2, <2>4, <2>5, <2>7, ConfiguFileAssumption DEF Saving
  <2>9. Loads(p, file)
    BY <2>7, <2>8 DEF Loads
  <2>10. ~(Reload(p) /\ pc'[p] = "failed")
    BY <1>1, <2>2, <2>9 DEF Reload, Goto, FileTypeInv
  <2>11. ReloadFails(p) => Register \in DOMAIN old
    <3>1. ReloadFails(p) => Register \in DOMAIN reread[p] /\ pc[p] = "reloading"
      BY DEF ReloadFails
    <3>2. Register # Platform
      BY ConfiguFileAssumption
    <3>. QED
      BY <2>2, <2>7, <3>1, <3>2
  <2>. QED
    BY <2>1, <2>4, <2>7, <2>10, <2>11
<1>2. FileIInv /\ [Next]_vars =>
        [\A p \in Process \ disturbed :
            pc[p] \in {"written", "reloading"} /\ pc'[p] \in {"loggedIn", "failed"} =>
                /\ pc'[p] = "failed" => pc[p] = "reloading" /\ Register \in DOMAIN local[p]
                /\ file'[Platform] \in granted
                /\ file' = [e \in DOMAIN local[p] \cup {Platform} |->
                               IF e = Platform THEN file'[Platform] ELSE local[p][e]]]_vars
  BY <1>1
<1>. QED
  BY <1>2, FileInvariant, PTL DEF Spec, LoginIsKept


-----------------------------------------------------------------------------
(* The cache of packages. *)

Frame == [package : Package, at : Stage, todo : Seq(Package)]

CacheTypeInv ==
    /\ dir \in [Package -> Directory \cup {Absent}]
    /\ calls \in [Task -> Seq(Frame)]
    /\ whole \subseteq Task
    /\ outcome \in [Task -> {"none", "registered", "failed"}]
    /\ quiet \subseteq Task /\ cached \subseteq Task

(* Tasks that have been alone still are. *)
Lone == \A t \in quiet : Active \subseteq {t}

(* A task that has been alone has the archive it extracts. *)
ArchiveInv ==
    /\ DOMAIN tar = {Archive[u] : u \in Package}
    /\ \A t \in quiet \cap Active :
          /\ At(t, {"write"}) => t \in sole
          /\ At(t, {"clean", "extract"}) => tar[Archive[Target(t)]] # "none"

(* Everything a task needs is in place. *)
InPlace(t) ==
    /\ Len(calls[t]) = 1 /\ At(t, {"check", "try", "tryImport"})
    /\ Importable(Target(t)) /\ \A d \in Needs[Target(t)] : Installable(d)

Settled(u) == dir[u] # Absent /\ dir[u].json = "prepared" /\ dir[u].complete

Fetching == {"fetch", "open", "write", "clean"}

Refetching == {"extract", "extractRest", "load", "save"}

(* What a task that has been alone finds in the directory it works on. *)
Innermost(t) ==
    LET u == Target(t)
    IN  /\ At(t, Fetching) /\ u = Sdk => ~Wedged
        /\ At(t, {"extract"}) => dir[u] = Fresh /\ t \in whole
        /\ At(t, {"extractRest"}) => dir[u] # Absent /\ dir[u].json = "raw" /\ t \in whole
        /\ At(t, {"load", "save"}) => dir[u] # Absent /\ dir[u].json = "raw" /\ dir[u].complete
        /\ At(t, {"save"}) => calls[t][1].todo = Deps[u]
        /\ At(t, {"deps", "final", "finalImport"}) => Settled(u)
        /\ At(t, {"final", "finalImport"}) => calls[t][1].todo = <<>>
        /\ At(t, {"tryImport", "finalImport"}) => u # Sdk
        /\ At(t, {"finalImport"}) => dir[u].installed

(* The calls it is nested in wait for a dependency, their own directories  *)
(* rewritten, unless it is fetching one of them again.                     *)
Waiting(t) ==
    \A i \in DOMAIN calls[t] \ {1} :
        LET f == calls[t][i]
        IN  /\ f.at = "deps"
            /\ Settled(f.package) \/ (f.package = Target(t) /\ At(t, Refetching))

Nested(t) ==
    /\ \A i, j \in DOMAIN calls[t] : i <= j => calls[t][i].package \in Needs[calls[t][j].package]
    /\ \A i \in DOMAIN calls[t] : Elements(calls[t][i].todo) \subseteq Elements(Deps[calls[t][i].package])

(* The dependencies of f that have been registered. *)
Obtained(f) == Elements(Deps[f.package]) \ Elements(f.todo)

(* What they need is in place, or about to be. *)
Supplied(t) ==
    /\ \A i \in DOMAIN calls[t] \ {1} : \A d \in Obtained(calls[t][i]) : \A x \in Needs[d] :
          Ready(x) \/ x \in Needs[calls[t][i - 1].package]
    /\ At(t, {"deps", "final", "finalImport"}) =>
          \A d \in Obtained(calls[t][1]) : \A x \in Needs[d] : Ready(x)

CacheIInv ==
    /\ CacheTypeInv
    /\ Lone
    /\ \A t \in quiet \cap Active :
          /\ t \in cached => InPlace(t)
          /\ Innermost(t) /\ Waiting(t) /\ Nested(t)
          /\ ~Wedged => Supplied(t)

-----------------------------------------------------------------------------
(* Sequences of calls. *)

LEMMA FirstReplaced ==
    ASSUME NEW S, NEW s \in Seq(S), s # <<>>, NEW f \in S, NEW r, r = <<f>> \o Tail(s)
    PROVE  /\ r \in Seq(S) /\ Len(r) = Len(s) /\ r # <<>> /\ r[1] = f /\ DOMAIN r = DOMAIN s
           /\ Len(s) \in Nat \ {0} /\ DOMAIN s = 1..Len(s)
           /\ \A i \in DOMAIN s \ {1} : r[i] = s[i]
<1>1. Len(s) \in Nat \ {0} /\ Tail(s) \in Seq(S) /\ Len(Tail(s)) = Len(s) - 1
  OBVIOUS
<1>2. \A i \in 1..(Len(s) - 1) : Tail(s)[i] = s[i + 1]
  BY <1>1
<1>3. <<f>> \in Seq(S) /\ Len(<<f>>) = 1
  OBVIOUS
<1>4. r \in Seq(S) /\ Len(r) = Len(s) /\ r[1] = f
  BY <1>1, <1>3
<1>5. \A i \in 2..Len(s) : r[i] = Tail(s)[i - 1]
  BY <1>1, <1>3
<1>6. \A i \in 2..Len(s) : r[i] = s[i]
  BY <1>1, <1>2, <1>5
<1>7. DOMAIN r = 1..Len(r) /\ DOMAIN s = 1..Len(s) /\ r # <<>>
  BY <1>1, <1>4
<1>. QED
  BY <1>1, <1>4, <1>6, <1>7

LEMMA FirstDropped ==
    ASSUME NEW S, NEW s \in Seq(S), s # <<>>
    PROVE  /\ Tail(s) \in Seq(S) /\ Len(Tail(s)) = Len(s) - 1
           /\ Len(s) \in Nat \ {0} /\ DOMAIN s = 1..Len(s) /\ DOMAIN Tail(s) = 1..(Len(s) - 1)
           /\ \A i \in DOMAIN Tail(s) : Tail(s)[i] = s[i + 1]
           /\ Tail(s) = <<>> <=> Len(s) = 1
<1>1. Len(s) \in Nat \ {0} /\ Tail(s) \in Seq(S) /\ Len(Tail(s)) = Len(s) - 1
  OBVIOUS
<1>2. \A i \in 1..(Len(s) - 1) : Tail(s)[i] = s[i + 1]
  BY <1>1
<1>. QED
  BY <1>1, <1>2

LEMMA FirstPushed ==
    ASSUME NEW S, NEW s \in Seq(S), s # <<>>, NEW f \in S, NEW g \in S,
           NEW r, r = <<g, f>> \o Tail(s)
    PROVE  /\ r \in Seq(S) /\ Len(r) = Len(s) + 1 /\ r # <<>> /\ r[1] = g /\ r[2] = f
           /\ Len(s) \in Nat \ {0} /\ DOMAIN s = 1..Len(s) /\ DOMAIN r = 1..(Len(s) + 1)
           /\ \A i \in DOMAIN r \ {1, 2} : r[i] = s[i - 1] /\ i - 1 \in DOMAIN s \ {1}
<1>1. Len(s) \in Nat \ {0} /\ Tail(s) \in Seq(S) /\ Len(Tail(s)) = Len(s) - 1
  OBVIOUS
<1>2. \A i \in 1..(Len(s) - 1) : Tail(s)[i] = s[i + 1]
  BY <1>1
<1>3. <<g, f>> \in Seq(S) /\ Len(<<g, f>>) = 2
  OBVIOUS
<1>4. r \in Seq(S) /\ Len(r) = Len(s) + 1 /\ r[1] = g /\ r[2] = f
  BY <1>1, <1>3
<1>5. \A i \in 3..(Len(s) + 1) : r[i] = Tail(s)[i - 2]
  BY <1>1, <1>3
<1>6. \A i \in 3..(Len(s) + 1) : r[i] = s[i - 1] /\ i - 1 \in 2..Len(s)
  BY <1>1, <1>2, <1>5
<1>7. DOMAIN r = 1..Len(r) /\ DOMAIN s = 1..Len(s) /\ r # <<>>
  BY <1>1, <1>4
<1>. QED
  BY <1>1, <1>4, <1>6, <1>7

LEMMA NeedsForm ==
    ASSUME NEW u \in Package
    PROVE  /\ Needs[u] \subseteq Package /\ u \in Needs[u]
           /\ Deps[u] \in Seq(Package) /\ Elements(Deps[u]) \subseteq Needs[u]
           /\ \A d \in Needs[u] : Needs[d] \subseteq Needs[u]
           /\ Needs[u] = {u} \cup UNION {Needs[d] : d \in Elements(Deps[u])}
<1>1. /\ Needs[u] = {u} \cup UNION {Needs[d] : d \in Elements(Deps[u])}
      /\ \A d \in Needs[u] : Needs[d] \subseteq Needs[u]
      /\ Needs[u] \subseteq Package /\ Deps[u] \in Seq(Package)
  BY ModuleCacheAssumption
<1>2. \A d \in Elements(Deps[u]) : d \in Package
  BY <1>1 DEF Elements
<1>3. \A d \in Elements(Deps[u]) : d \in Needs[d]
  BY <1>2, ModuleCacheAssumption
<1>. QED
  BY <1>1, <1>3

LEMMA SdkNeeds == Sdk \in Package /\ Deps[Sdk] = <<>> /\ Elements(Deps[Sdk]) = {} /\ Needs[Sdk] = {Sdk}
<1>1. Sdk \in Package /\ Deps[Sdk] = <<>>
  BY ModuleCacheAssumption
<1>2. Elements(Deps[Sdk]) = {}
  BY <1>1 DEF Elements
<1>. QED
  BY <1>1, <1>2, NeedsForm

LEMMA FrameForm ==
    ASSUME CacheTypeInv, NEW t \in Task, calls[t] # <<>>
    PROVE  /\ calls[t] \in Seq(Frame) /\ Len(calls[t]) \in Nat \ {0} /\ 1 \in DOMAIN calls[t]
           /\ DOMAIN calls[t] = 1..Len(calls[t])
           /\ \A i \in DOMAIN calls[t] : calls[t][i] \in Frame
           /\ Target(t) \in Package /\ Target(t) = calls[t][1].package
<1>1. calls[t] \in Seq(Frame)
  BY DEF CacheTypeInv
<1>2. /\ Len(calls[t]) \in Nat \ {0} /\ DOMAIN calls[t] = 1..Len(calls[t])
      /\ \A i \in 1..Len(calls[t]) : calls[t][i] \in Frame
  BY <1>1
<1>3. calls[t][1] \in Frame
  BY <1>2
<1>4. Target(t) = calls[t][1].package /\ Target(t) \in Package
  BY <1>3 DEF Frame, Target
<1>. QED
  BY <1>1, <1>2, <1>4

LEMMA DirForm ==
    ASSUME CacheTypeInv, NEW u \in Package, dir[u] # Absent
    PROVE  dir[u] \in Directory
BY DEF CacheTypeInv

-----------------------------------------------------------------------------
(* One step of a task. *)

(* What there is to know after a step of t, if it has been alone. *)
Kept(t) ==
    /\ t \in cached => InPlace(t)
    /\ Innermost(t) /\ Waiting(t) /\ Nested(t)
    /\ ~Wedged => Supplied(t)

LEMMA ActorKeeps ==
    ASSUME CacheIInv, NEW t \in Task, calls[t] # <<>>, CacheTypeInv',
           \A s \in Task \ {t} : calls'[s] = calls[s],
           quiet' \subseteq quiet, cached' = cached,
           t \in quiet' /\ calls'[t] # <<>> => Kept(t)'
    PROVE  CacheIInv'
<1>1. Active' \subseteq Active /\ t \in Active
  BY DEF Active
<1>2. Lone'
  BY <1>1 DEF CacheIInv, Lone
<1>3. ASSUME NEW s \in quiet' \cap Active' PROVE s = t /\ t \in quiet' /\ calls'[t] # <<>>
  <2>1. s \in quiet /\ s \in Task
    BY <1>3 DEF Active
  <2>2. s = t
    BY <1>1, <2>1 DEF CacheIInv, Lone
  <2>. QED
    BY <1>3, <2>1, <2>2 DEF Active
<1>4. \A s \in quiet' \cap Active' : Kept(s)'
  BY <1>3
<1>. QED
  BY <1>2, <1>4 DEF CacheIInv, Kept

LEMMA KeptNow ==
    ASSUME CacheIInv, NEW t \in Task, calls[t] # <<>>, t \in quiet
    PROVE  Kept(t)
BY DEF CacheIInv, Kept, Active

(* The first call of t becomes f. *)
LEMMA Moves ==
    ASSUME CacheTypeInv, NEW t \in Task, calls[t] # <<>>, NEW f \in Frame, f.package = Target(t),
           calls' = [calls EXCEPT ![t] = <<f>> \o Tail(calls[t])]
    PROVE  /\ calls' \in [Task -> Seq(Frame)] /\ calls'[t] # <<>> /\ calls'[t][1] = f
           /\ Len(calls'[t]) = Len(calls[t]) /\ DOMAIN calls'[t] = DOMAIN calls[t]
           /\ \A i \in DOMAIN calls[t] \ {1} : calls'[t][i] = calls[t][i]
           /\ \A s \in Task \ {t} : calls'[s] = calls[s]
           /\ Target(t)' = Target(t)
           /\ \A i \in DOMAIN calls[t] : calls'[t][i].package = calls[t][i].package
<1>1. PICK r : r = <<f>> \o Tail(calls[t])
  OBVIOUS
<1>2. calls[t] \in Seq(Frame)
  BY DEF CacheTypeInv
<1>3. /\ r \in Seq(Frame) /\ Len(r) = Len(calls[t]) /\ r # <<>> /\ r[1] = f
      /\ DOMAIN r = DOMAIN calls[t]
      /\ \A i \in DOMAIN calls[t] \ {1} : r[i] = calls[t][i]
  BY <1>1, <1>2, FirstReplaced
<1>4. calls' = [calls EXCEPT ![t] = r] /\ calls \in [Task -> Seq(Frame)]
  BY <1>1 DEF CacheTypeInv
<1>5. calls' \in [Task -> Seq(Frame)] /\ calls'[t] = r /\ \A s \in Task \ {t} : calls'[s] = calls[s]
  BY <1>3, <1>4
<1>6. Target(t)' = Target(t)
  BY <1>3, <1>5 DEF Target
<1>7. \A i \in DOMAIN calls[t] : calls'[t][i].package = calls[t][i].package
  BY <1>3, <1>5 DEF Target
<1>. QED
  BY <1>3, <1>5, <1>6, <1>7

(* The calls t is nested in, when its first call becomes f and it writes   *)
(* to no other directory.                                                  *)
LEMMA OuterKept ==
    ASSUME CacheTypeInv, NEW t \in Task, calls[t] # <<>>, NEW f \in Frame, f.package = Target(t),
           calls' = [calls EXCEPT ![t] = <<f>> \o Tail(calls[t])],
           \A u \in Package \ {Target(t)} : dir'[u] = dir[u],
           Elements(f.todo) \subseteq Elements(Deps[Target(t)]),
           \/ Settled(Target(t))'
           \/ f.at \in Refetching
           \/ ~At(t, Refetching) /\ (Settled(Target(t)) => Settled(Target(t))'),
           Waiting(t), Nested(t)
    PROVE  /\ Waiting(t)' /\ Nested(t)'
           /\ Supplied(t) =>
                 \A i \in DOMAIN calls'[t] \ {1} :
                     \A d \in Obtained(calls'[t][i]) : \A x \in Needs[d] :
                         Ready(x)' \/ x \in Needs[calls'[t][i - 1].package]
<1>1. /\ calls'[t] # <<>> /\ calls'[t][1] = f /\ DOMAIN calls'[t] = DOMAIN calls[t]
      /\ \A i \in DOMAIN calls[t] \ {1} : calls'[t][i] = calls[t][i]
      /\ Target(t)' = Target(t)
      /\ \A i \in DOMAIN calls[t] : calls'[t][i].package = calls[t][i].package
  BY Moves
<1>2. /\ \A i \in DOMAIN calls[t] : calls[t][i].package \in Package
      /\ 1 \in DOMAIN calls[t] /\ DOMAIN calls[t] = 1..Len(calls[t]) /\ Len(calls[t]) \in Nat
  BY FrameForm DEF Frame
<1>3. Nested(t)'
  <2>1. \A i, j \in DOMAIN calls[t] : i <= j =>
            calls'[t][i].package \in Needs[calls'[t][j].package]
    BY <1>1 DEF Nested
  <2>2. Target(t) = calls[t][1].package
    BY DEF Target
  <2>3. \A i \in DOMAIN calls[t] :
            Elements(calls'[t][i].todo) \subseteq Elements(Deps[calls'[t][i].package])
    BY <1>1, <2>2 DEF Nested
  <2>. QED
    BY <1>1, <2>1, <2>3 DEF Nested
<1>4. At(t, Refetching)' <=> f.at \in Refetching
  BY <1>1 DEF At, Refetching
<1>5. ASSUME NEW i \in DOMAIN calls[t] \ {1}
      PROVE  (/\ calls[t][i].at = "deps"
              /\ \/ Settled(calls[t][i].package)
                 \/ calls[t][i].package = Target(t) /\ At(t, Refetching))'
  <2>. PICK u \in Package : u = calls[t][i].package /\ u = calls'[t][i].package
    BY <1>1, <1>2
  <2>1. calls'[t][i].at = "deps" /\ (Settled(u) \/ (u = Target(t) /\ At(t, Refetching)))
    BY <1>1 DEF Waiting
  <2>2. CASE u # Target(t)
    <3>1. Settled(u)'
      BY <2>1, <2>2 DEF Settled
    <3>. QED
      BY <2>1, <3>1 DEF Settled
  <2>3. CASE u = Target(t)
    <3>1. Settled(u)' \/ At(t, Refetching)'
      BY <1>1, <1>4, <2>1, <2>3 DEF Settled
    <3>. QED
      BY <1>1, <2>1, <2>3, <3>1 DEF Settled
  <2>. QED
    BY <2>1, <2>2, <2>3
<1>6. Waiting(t)'
  BY <1>1, <1>5 DEF Waiting
<1>7. ASSUME Supplied(t), NEW i \in DOMAIN calls[t] \ {1},
             NEW d \in Obtained(calls[t][i]), NEW x \in Needs[d]
      PROVE  Ready(x)' \/ x \in Needs[calls[t][i - 1].package]
  <2>1. i - 1 \in DOMAIN calls[t] /\ 1 <= i - 1
    BY <1>2
  <2>2. Target(t) \in Needs[calls[t][i - 1].package]
    BY <1>2, <2>1 DEF Nested, Target
  <2>3. Ready(x) \/ x \in Needs[calls[t][i - 1].package]
    BY <1>7 DEF Supplied
  <2>4. x \in Package
    <3>1. d \in Elements(Deps[calls[t][i].package]) /\ calls[t][i].package \in Package
      BY <1>2, <1>7 DEF Obtained
    <3>2. d \in Package
      BY <3>1, NeedsForm
    <3>. QED
      BY <3>2, NeedsForm
  <2>5. x # Target(t) /\ Ready(x) => Ready(x)'
    BY <2>4 DEF Ready
  <2>. QED
    BY <2>2, <2>3, <2>5
<1>8. \A i \in DOMAIN calls[t] \ {1} : i - 1 \in DOMAIN calls[t]
  BY <1>2
<1>. QED
  BY <1>1, <1>3, <1>6, <1>7, <1>8 DEF Obtained

LEMMA ProceedForm ==
    ASSUME CacheTypeInv, NEW t \in Task, calls[t] # <<>>, NEW stage \in Stage, Proceed(t, stage)
    PROVE  \E f \in Frame :
              /\ f.package = Target(t) /\ f.at = stage /\ f.todo = calls[t][1].todo
              /\ calls' = [calls EXCEPT ![t] = <<f>> \o Tail(calls[t])]
              /\ outcome' = outcome
<1>1. calls[t][1] \in Frame
  BY FrameForm
<1>2. PICK f : f = [calls[t][1] EXCEPT !.at = stage]
  OBVIOUS
<1>3. f \in Frame /\ f.package = Target(t) /\ f.at = stage /\ f.todo = calls[t][1].todo
  BY <1>1, <1>2 DEF Frame, Target
<1>. QED
  BY <1>2, <1>3 DEF Proceed, Moved

LEMMA TodoForm ==
    ASSUME CacheTypeInv, NEW t \in Task, calls[t] # <<>>, Nested(t)
    PROVE  Elements(calls[t][1].todo) \subseteq Elements(Deps[Target(t)])
BY FrameForm DEF Nested, Target

(* A step that rejects. *)
LEMMA RejectKeeps ==
    ASSUME CacheIInv, NEW t \in Task, calls[t] # <<>>, calls' = [calls EXCEPT ![t] = <<>>],
           outcome' \in [Task -> {"none", "registered", "failed"}],
           dir' \in [Package -> Directory \cup {Absent}],
           quiet' \subseteq quiet, whole' = whole, cached' = cached
    PROVE  CacheIInv'
<1>1. calls' \in [Task -> Seq(Frame)] /\ calls'[t] = <<>>
      /\ \A s \in Task \ {t} : calls'[s] = calls[s]
  BY DEF CacheIInv, CacheTypeInv
<1>2. CacheTypeInv'
  BY <1>1 DEF CacheIInv, CacheTypeInv
<1>. QED
  BY <1>1, <1>2, ActorKeeps

(* A step whose only effect on the calls is that the first becomes f. *)
LEMMA StepKeeps ==
    ASSUME CacheIInv, NEW t \in Task, calls[t] # <<>>, NEW f \in Frame, f.package = Target(t),
           calls' = [calls EXCEPT ![t] = <<f>> \o Tail(calls[t])],
           dir' \in [Package -> Directory \cup {Absent}], whole' \subseteq Task,
           outcome' = outcome, quiet' = quiet, cached' = cached,
           \A u \in Package \ {Target(t)} : dir'[u] = dir[u],
           t \in quiet =>
               /\ t \in cached => InPlace(t)'
               /\ Innermost(t)'
               /\ \/ Settled(Target(t))'
                  \/ f.at \in Refetching
                  \/ ~At(t, Refetching) /\ (Settled(Target(t)) => Settled(Target(t))')
               /\ Elements(f.todo) \subseteq Elements(Deps[Target(t)])
               /\ Wedged => Wedged'
               /\ ~Wedged' /\ f.at \in {"deps", "final", "finalImport"} =>
                     \A d \in Obtained(f) : \A x \in Needs[d] : Ready(x)'
    PROVE  CacheIInv'
<1>1. CacheTypeInv
  BY DEF CacheIInv
<1>2. /\ calls' \in [Task -> Seq(Frame)] /\ calls'[t] # <<>> /\ calls'[t][1] = f
      /\ \A s \in Task \ {t} : calls'[s] = calls[s]
  BY <1>1, Moves
<1>3. CacheTypeInv'
  BY <1>1, <1>2 DEF CacheTypeInv
<1>4. ASSUME t \in quiet PROVE Kept(t)'
  <2>1. Waiting(t) /\ Nested(t) /\ (~Wedged => Supplied(t))
    BY <1>4, KeptNow DEF Kept
  <2>2. Waiting(t)' /\ Nested(t)'
    BY <1>1, <1>4, <2>1, OuterKept
  <2>3. ASSUME ~Wedged' PROVE Supplied(t)'
    <3>1. \A i \in DOMAIN calls'[t] \ {1} :
              \A d \in Obtained(calls'[t][i]) : \A x \in Needs[d] :
                  Ready(x)' \/ x \in Needs[calls'[t][i - 1].package]
      BY <1>1, <1>4, <2>1, <2>3, OuterKept
    <3>2. At(t, {"deps", "final", "finalImport"})' =>
              \A d \in Obtained(calls'[t][1]) : \A x \in Needs[d] : Ready(x)'
      BY <1>2, <1>4, <2>3 DEF At
    <3>. QED
      BY <3>1, <3>2 DEF Supplied, Obtained
  <2>. QED
    BY <1>4, <2>2, <2>3 DEF Kept
<1>. QED
  BY <1>2, <1>3, <1>4, ActorKeeps

LEMMA ReturnKeeps ==
    ASSUME CacheIInv, NEW t \in Task, calls[t] # <<>>, Return(t), NEW v \in Package, v = Target(t),
           dir' \in [Package -> Directory \cup {Absent}],
           UNCHANGED <<whole, quiet, cached>>,
           \A u \in Package \ {v} : dir'[u] = dir[u],
           ~At(t, Refetching),
           t \in quiet =>
               /\ Settled(v) => Settled(v)'
               /\ Wedged => Wedged'
               /\ ~Wedged' => \A x \in Needs[v] : Ready(x)'
    PROVE  CacheIInv'
<1>1. CacheTypeInv
  BY DEF CacheIInv
<1>. PICK s \in Seq(Frame) : s = calls[t] /\ s # <<>>
  BY <1>1, FrameForm
<1>. PICK r : r = Tail(s)
  OBVIOUS
<1>2. /\ r \in Seq(Frame) /\ Len(r) = Len(s) - 1 /\ Len(s) \in Nat \ {0}
      /\ DOMAIN s = 1..Len(s) /\ DOMAIN r = 1..(Len(s) - 1)
      /\ \A i \in DOMAIN r : r[i] = s[i + 1]
      /\ r = <<>> <=> Len(s) = 1
  BY FirstDropped
<1>3. calls' = [calls EXCEPT ![t] = r] /\ outcome' \in [Task -> {"none", "registered", "failed"}]
  BY <1>1 DEF Return, CacheTypeInv
<1>4. /\ calls' \in [Task -> Seq(Frame)] /\ calls'[t] = r
      /\ \A q \in Task \ {t} : calls'[q] = calls[q]
  BY <1>1, <1>2, <1>3 DEF CacheTypeInv
<1>5. CacheTypeInv'
  BY <1>1, <1>3, <1>4 DEF CacheTypeInv
<1>6. ASSUME t \in quiet, r # <<>> PROVE Kept(t)'
  <2>1. Waiting(t) /\ Nested(t) /\ (~Wedged => Supplied(t)) /\ (t \in cached => InPlace(t))
    BY <1>6, KeptNow DEF Kept
  <2>2. t \notin cached
    BY <1>2, <1>6, <2>1 DEF InPlace
  <2>3. Target(t) = s[1].package /\ Target(t)' = r[1].package /\ 1 \in DOMAIN r
    BY <1>2, <1>4, <1>6 DEF Target
  <2>4. \A i \in DOMAIN r : i + 1 \in DOMAIN s \ {1} /\ r[i] = s[i + 1] /\ r[i] \in Frame
    BY <1>2
  <2>5. ASSUME NEW i \in DOMAIN r PROVE r[i].at = "deps" /\ Settled(r[i].package)'
    <3>. PICK u \in Package : u = r[i].package
      BY <2>4 DEF Frame
    <3>1. r[i].at = "deps" /\ Settled(u)
      BY <2>1, <2>4 DEF Waiting
    <3>2. CASE u # v
      BY <3>1, <3>2 DEF Settled
    <3>3. CASE u = v
      BY <1>6, <3>1, <3>3
    <3>. QED
      BY <3>1, <3>2, <3>3 DEF Settled
  <2>6. Innermost(t)'
    <3>1. r[1].at = "deps" /\ Settled(r[1].package)' /\ calls'[t][1] = r[1] /\ calls'[t] # <<>>
      BY <1>4, <1>6, <2>3, <2>5
    <3>. QED
      BY <2>3, <3>1 DEF Innermost, At, Fetching
  <2>7. Waiting(t)'
    BY <1>4, <2>5 DEF Waiting
  <2>8. Nested(t)'
    <3>1. ASSUME NEW i \in DOMAIN r, NEW j \in DOMAIN r, i <= j
          PROVE  r[i].package \in Needs[r[j].package]
      <4>1. i + 1 <= j + 1
        BY <1>2, <3>1
      <4>. QED
        BY <2>1, <2>4, <4>1 DEF Nested
    <3>2. \A i \in DOMAIN r : Elements(r[i].todo) \subseteq Elements(Deps[r[i].package])
      BY <2>1, <2>4 DEF Nested
    <3>. QED
      BY <1>4, <3>1, <3>2 DEF Nested
  <2>9. ASSUME ~Wedged' PROVE Supplied(t)'
    <3>1. Supplied(t)
      BY <1>6, <2>1, <2>9
    <3>2. \A x \in Package : x # v /\ Ready(x) => Ready(x)'
      BY DEF Ready
    <3>3. ASSUME NEW i \in DOMAIN s \ {1}, NEW d \in Obtained(s[i]), NEW x \in Needs[d]
          PROVE  Ready(x)' \/ x \in Needs[s[i - 1].package]
      <4>1. Ready(x) \/ x \in Needs[s[i - 1].package]
        BY <3>1, <3>3 DEF Supplied
      <4>2. x \in Package
        <5>0. s[i] \in Frame
          BY <1>2
        <5>1. s[i].package \in Package
          BY <5>0 DEF Frame
        <5>2. d \in Package
          BY <3>3, <5>1, NeedsForm DEF Obtained
        <5>. QED
          BY <5>2, NeedsForm
      <4>3. v \in Needs[v]
        BY NeedsForm
      <4>. QED
        BY <1>6, <2>9, <3>2, <4>1, <4>2, <4>3
    <3>4. ASSUME NEW i \in DOMAIN r \ {1}, NEW d \in Obtained(r[i]), NEW x \in Needs[d]
          PROVE  Ready(x)' \/ x \in Needs[r[i - 1].package]
      <4>1. i - 1 \in DOMAIN r /\ r[i - 1] = s[i]
        BY <1>2
      <4>2. i + 1 \in DOMAIN s \ {1} /\ r[i] = s[i + 1] /\ (i + 1) - 1 = i
        BY <1>2
      <4>. QED
        BY <3>3, <3>4, <4>1, <4>2
    <3>5. ASSUME NEW d \in Obtained(r[1]), NEW x \in Needs[d] PROVE Ready(x)'
      <4>1. 2 \in DOMAIN s \ {1} /\ r[1] = s[2] /\ 2 - 1 = 1
        BY <1>2, <1>6
      <4>2. Ready(x)' \/ x \in Needs[s[1].package]
        BY <3>3, <3>5, <4>1
      <4>. QED
        BY <1>6, <2>3, <2>9, <4>2
    <3>. QED
      BY <1>4, <3>4, <3>5 DEF Supplied, Obtained
  <2>. QED
    BY <1>6, <2>2, <2>6, <2>7, <2>8, <2>9 DEF Kept
<1>. QED
  BY <1>4, <1>5, <1>6, ActorKeeps

LEMMA TodoParts ==
    ASSUME NEW s \in Seq(Package), s # <<>>
    PROVE  /\ Head(s) \in Package /\ Tail(s) \in Seq(Package) /\ Head(s) \in Elements(s)
           /\ \A x \in Elements(s) : x = Head(s) \/ x \in Elements(Tail(s))
           /\ Elements(Tail(s)) \subseteq Elements(s)
<1>1. /\ Len(s) \in Nat \ {0} /\ DOMAIN s = 1..Len(s) /\ Head(s) = s[1] /\ Head(s) \in Package
      /\ Tail(s) \in Seq(Package) /\ DOMAIN Tail(s) = 1..(Len(s) - 1)
      /\ \A i \in DOMAIN Tail(s) : Tail(s)[i] = s[i + 1]
  BY FirstDropped
<1>2. \A i \in DOMAIN s : i = 1 \/ (i - 1 \in DOMAIN Tail(s) /\ Tail(s)[i - 1] = s[i])
  BY <1>1
<1>3. \A i \in DOMAIN Tail(s) : i + 1 \in DOMAIN s
  BY <1>1
<1>4. Head(s) \in Elements(s)
  BY <1>1 DEF Elements
<1>5. \A x \in Elements(s) : x = Head(s) \/ x \in Elements(Tail(s))
  <2>. SUFFICES ASSUME NEW i \in DOMAIN s PROVE s[i] = Head(s) \/ s[i] \in Elements(Tail(s))
    BY DEF Elements
  <2>1. CASE i = 1
    BY <1>1, <2>1
  <2>2. CASE i # 1
    BY <1>2, <2>2 DEF Elements
  <2>. QED
    BY <2>1, <2>2
<1>6. Elements(Tail(s)) \subseteq Elements(s)
  BY <1>1, <1>3 DEF Elements
<1>. QED
  BY <1>1, <1>4, <1>5, <1>6

LEMMA SettledSame ==
    ASSUME UNCHANGED dir
    PROVE  \A u : Settled(u) => Settled(u)'
BY DEF Settled

(* A dependency is registered in turn. *)
LEMMA NextDependencyStep ==
    ASSUME CacheIInv, NEW t \in Task, NextDependency(t), calls[t][1].todo # <<>>
    PROVE  CacheIInv'
<1>1. CacheTypeInv /\ calls[t] # <<>> /\ calls[t][1].at = "deps"
  BY DEF CacheIInv, NextDependency, At
<1>. PICK s \in Seq(Frame) : s = calls[t] /\ s # <<>>
  BY <1>1, FrameForm
<1>2. s[1] \in Frame /\ s[1].todo \in Seq(Package) /\ s[1].package \in Package
  BY <1>1, FrameForm DEF Frame
<1>. PICK todo \in Seq(Package) : todo = s[1].todo /\ todo # <<>>
  BY <1>2
<1>. PICK g : g = Call(Head(todo), "check", <<>>)
  OBVIOUS
<1>. PICK f : f = [s[1] EXCEPT !.todo = Tail(@)]
  OBVIOUS
<1>. PICK r : r = <<g, f>> \o Tail(s)
  OBVIOUS
<1>3. g \in Frame /\ g.package = Head(todo) /\ g.at = "check" /\ g.todo = <<>>
  BY TodoParts DEF Call, Frame, Stage
<1>4. f \in Frame /\ f.package = s[1].package /\ f.at = "deps" /\ f.todo = Tail(todo)
  BY <1>1, <1>2, TodoParts DEF Frame
<1>5. /\ r \in Seq(Frame) /\ Len(r) = Len(s) + 1 /\ r # <<>> /\ r[1] = g /\ r[2] = f
      /\ Len(s) \in Nat \ {0} /\ DOMAIN s = 1..Len(s) /\ DOMAIN r = 1..(Len(s) + 1)
      /\ \A i \in DOMAIN r \ {1, 2} : r[i] = s[i - 1] /\ i - 1 \in DOMAIN s \ {1}
  <2>. HIDE DEF Frame
  <2>. QED
    BY <1>3, <1>4, FirstPushed
<1>10. /\ 1 \in DOMAIN s /\ \A i \in DOMAIN s : s[i] \in Frame /\ s[i].package \in Package
       /\ \A i \in DOMAIN r \ {1} : i - 1 \in DOMAIN s
  <2>1. 1 \in DOMAIN s /\ \A i \in DOMAIN r \ {1} : i - 1 \in DOMAIN s
    BY <1>5
  <2>2. \A i \in DOMAIN s : s[i] \in Frame
    BY <1>5
  <2>. QED
    BY <2>1, <2>2 DEF Frame
<1>6. calls' = [calls EXCEPT ![t] = r] /\ outcome' = outcome
      /\ UNCHANGED <<dir, whole, quiet, cached>>
  BY DEF NextDependency
<1>7. /\ calls' \in [Task -> Seq(Frame)] /\ calls'[t] = r
      /\ \A q \in Task \ {t} : calls'[q] = calls[q]
  BY <1>1, <1>5, <1>6 DEF CacheTypeInv
<1>8. CacheTypeInv'
  BY <1>1, <1>6, <1>7 DEF CacheTypeInv
<1>9. ASSUME t \in quiet PROVE Kept(t)'
  <2>1. /\ Innermost(t) /\ Waiting(t) /\ Nested(t)
        /\ (~Wedged => Supplied(t)) /\ (t \in cached => InPlace(t))
    BY <1>1, <1>9, KeptNow DEF Kept
  <2>2. t \notin cached
    BY <1>1, <2>1 DEF InPlace, At
  <2>3. Innermost(t)'
    BY <1>3, <1>5, <1>7 DEF Innermost, At, Fetching
  <2>4. Settled(s[1].package)
    BY <1>1, <2>1 DEF Innermost, At, Target
  <2>5. Waiting(t)'
    <3>1. ~At(t, Refetching)
      BY <1>1 DEF At, Refetching
    <3>2. \A i \in DOMAIN s \ {1} : s[i].at = "deps" /\ Settled(s[i].package)
      BY <2>1, <3>1 DEF Waiting
    <3>3. \A i \in DOMAIN r \ {1} : r[i].at = "deps" /\ Settled(r[i].package)
      <4>. SUFFICES ASSUME NEW i \in DOMAIN r \ {1} PROVE r[i].at = "deps" /\ Settled(r[i].package)
        OBVIOUS
      <4>1. CASE i = 2
        BY <1>4, <1>5, <2>4, <4>1
      <4>2. CASE i # 2
        BY <1>5, <3>2, <4>2
      <4>. QED
        BY <4>1, <4>2
    <3>4. ASSUME NEW i \in DOMAIN r \ {1} PROVE r[i].at = "deps" /\ Settled(r[i].package)'
      BY <1>6, <3>3, SettledSame
    <3>. QED
      BY <1>7, <3>4 DEF Waiting
  <2>11. /\ \A i, j \in DOMAIN s : i <= j => s[i].package \in Needs[s[j].package]
         /\ \A i \in DOMAIN s : Elements(s[i].todo) \subseteq Elements(Deps[s[i].package])
    BY <2>1 DEF Nested
  <2>6. /\ Head(todo) \in Elements(Deps[s[1].package]) /\ Head(todo) \in Package
        /\ Elements(todo) \subseteq Elements(Deps[s[1].package])
    <3>1. Elements(todo) \subseteq Elements(Deps[s[1].package])
      BY <1>10, <2>11
    <3>. QED
      BY <3>1, TodoParts
  <2>7. ASSUME NEW j \in DOMAIN r PROVE g.package \in Needs[r[j].package]
    <3>1. g.package \in Needs[g.package] /\ g.package \in Needs[s[1].package]
      BY <1>2, <1>3, <2>6, NeedsForm
    <3>2. CASE j = 1 \/ j = 2
      <4>1. r[j] = g \/ r[j] = f
        BY <1>5, <3>2
      <4>. QED
        BY <1>4, <3>1, <4>1
    <3>3. CASE j \notin {1, 2}
      <4>1. r[j] = s[j - 1] /\ j - 1 \in DOMAIN s \ {1}
        BY <1>5, <3>3
      <4>2. 1 <= j - 1 /\ 1 \in DOMAIN s
        BY <1>5, <4>1
      <4>3. s[1].package \in Needs[s[j - 1].package]
        BY <2>11, <4>1, <4>2
      <4>5. s[j - 1].package \in Package
        BY <1>10, <4>1
      <4>. QED
        BY <3>1, <4>1, <4>3, <4>5, NeedsForm
    <3>. QED
      BY <3>2, <3>3
  <2>8. ASSUME NEW i \in DOMAIN r \ {1} PROVE i - 1 \in DOMAIN s /\ r[i].package = s[i - 1].package
    <3>1. CASE i = 2
      <4>1. r[i] = f /\ i - 1 = 1
        BY <1>5, <3>1
      <4>. QED
        BY <1>4, <1>10, <4>1
    <3>2. CASE i # 2
      BY <1>5, <3>2
    <3>. QED
      BY <3>1, <3>2
  <2>9. Nested(t)'
    <3>1. ASSUME NEW i \in DOMAIN r, NEW j \in DOMAIN r, i <= j
          PROVE  r[i].package \in Needs[r[j].package]
      <4>1. CASE i = 1
        BY <1>5, <2>7, <4>1
      <4>2. CASE i # 1
        <5>1. j # 1 /\ i - 1 <= j - 1
          BY <1>5, <3>1, <4>2
        <5>2. /\ r[i].package = s[i - 1].package /\ i - 1 \in DOMAIN s
              /\ r[j].package = s[j - 1].package /\ j - 1 \in DOMAIN s
          BY <2>8, <4>2, <5>1
        <5>. QED
          BY <2>11, <5>1, <5>2
      <4>. QED
        BY <4>1, <4>2
    <3>2. ASSUME NEW i \in DOMAIN r
          PROVE  Elements(r[i].todo) \subseteq Elements(Deps[r[i].package])
      <4>1. CASE i = 1
        <5>1. r[i] = g /\ Elements(<<>>) = {}
          BY <1>5, <4>1 DEF Elements
        <5>. QED
          BY <1>3, <5>1
      <4>2. CASE i = 2
        <5>1. r[i] = f
          BY <1>5, <4>2
        <5>2. Elements(Tail(todo)) \subseteq Elements(todo)
          BY TodoParts
        <5>. QED
          BY <1>4, <2>6, <5>1, <5>2
      <4>3. CASE i \notin {1, 2}
        <5>1. r[i] = s[i - 1] /\ i - 1 \in DOMAIN s
          BY <1>5, <4>3
        <5>. QED
          BY <2>11, <5>1
      <4>. QED
        BY <4>1, <4>2, <4>3
    <3>. QED
      BY <1>7, <3>1, <3>2 DEF Nested
  <2>10. ASSUME ~Wedged' PROVE Supplied(t)'
    <3>1. Supplied(t)
      BY <1>6, <2>1, <2>10 DEF Wedged
    <3>2. ASSUME NEW d \in Obtained(f), NEW x \in Needs[d] PROVE Ready(x) \/ x \in Needs[g.package]
      <4>1. d \in Obtained(s[1]) \/ d = Head(todo)
        BY <1>4, <3>2, TodoParts DEF Obtained
      <4>2. d \in Obtained(s[1]) => Ready(x)
        BY <1>1, <3>1 DEF Supplied, At
      <4>. QED
        BY <1>3, <4>1, <4>2
    <3>3. ASSUME NEW i \in DOMAIN r \ {1}, NEW d \in Obtained(r[i]), NEW x \in Needs[d]
          PROVE  Ready(x) \/ x \in Needs[r[i - 1].package]
      <4>1. CASE i = 2
        <5>1. r[i] = f /\ r[i - 1] = g
          BY <1>5, <4>1
        <5>. QED
          BY <3>2, <3>3, <5>1
      <4>2. CASE i # 2
        <5>1. r[i] = s[i - 1] /\ i - 1 \in DOMAIN s \ {1} /\ i - 1 \in DOMAIN r \ {1}
          BY <1>5, <4>2
        <5>2. r[i - 1].package = s[(i - 1) - 1].package
          BY <2>8, <5>1
        <5>. QED
          BY <3>1, <3>3, <5>1, <5>2 DEF Supplied
      <4>. QED
        BY <4>1, <4>2
    <3>4. ~At(t, {"deps", "final", "finalImport"})'
      BY <1>3, <1>5, <1>7 DEF At
    <3>5. \A x : Ready(x) => Ready(x)'
      BY <1>6 DEF Ready
    <3>. QED
      BY <1>7, <3>3, <3>4, <3>5 DEF Supplied, Obtained
  <2>. QED
    BY <1>6, <2>2, <2>3, <2>5, <2>9, <2>10 DEF Kept
<1>. QED
  BY <1>1, <1>6, <1>7, <1>8, <1>9, ActorKeeps

LEMMA RegisterRemoteStep ==
    ASSUME CacheIInv, NEW t \in Task, NEW u \in Wanted, RegisterRemote(t, u)
    PROVE  CacheIInv'
<1>1. CacheTypeInv /\ u \in Package
  BY ModuleCacheAssumption DEF CacheIInv
<1>. PICK f : f = Call(u, "check", <<>>)
  OBVIOUS
<1>2. f \in Frame /\ f.package = u /\ f.at = "check" /\ f.todo = <<>> /\ Elements(<<>>) = {}
  BY <1>1 DEF Call, Frame, Stage, Elements
<1>. PICK r : r = <<f>>
  OBVIOUS
<1>3. r \in Seq(Frame) /\ Len(r) = 1 /\ r # <<>> /\ r[1] = f /\ DOMAIN r = {1}
  BY <1>2
<1>4. /\ calls' = [calls EXCEPT ![t] = r] /\ outcome' = [outcome EXCEPT ![t] = "none"]
      /\ quiet' = IF Active = {} THEN {t} ELSE {}
      /\ cached' = (cached \ {t})
                   \cup {s \in {t} : Importable(u) /\ \A d \in Needs[u] : Installable(d)}
      /\ UNCHANGED <<dir, whole>>
  BY DEF RegisterRemote
<1>5. calls' \in [Task -> Seq(Frame)] /\ calls'[t] = r /\ \A s \in Task \ {t} : calls'[s] = calls[s]
  BY <1>1, <1>3, <1>4 DEF CacheTypeInv
<1>6. CacheTypeInv'
  BY <1>1, <1>4, <1>5 DEF CacheTypeInv
<1>7. ASSUME NEW s \in quiet' PROVE s = t /\ Active' = {t}
  BY <1>3, <1>4, <1>5, <1>7 DEF Active
<1>8. Lone'
  BY <1>7 DEF Lone
<1>9. Target(t)' = u /\ u \in Needs[u]
  BY <1>1, <1>2, <1>3, <1>5, NeedsForm DEF Target
<1>10. t \in cached' => InPlace(t)'
  <2>. SUFFICES ASSUME t \in cached' PROVE InPlace(t)'
    OBVIOUS
  <2>1. Importable(u) /\ \A d \in Needs[u] : Installable(d)
    BY <1>4
  <2>2. Importable(u)' /\ \A d \in Needs[u] : Installable(d)'
    BY <1>4, <2>1 DEF Importable, Installable, Ready
  <2>3. Len(calls'[t]) = 1 /\ At(t, {"check", "try", "tryImport"})'
    BY <1>2, <1>3, <1>5 DEF At
  <2>. QED
    BY <1>9, <2>2, <2>3 DEF InPlace
<1>11. Innermost(t)'
  BY <1>2, <1>3, <1>5 DEF Innermost, At, Fetching
<1>12. Waiting(t)'
  BY <1>3, <1>5 DEF Waiting
<1>13. Nested(t)'
  BY <1>2, <1>3, <1>5, <1>9 DEF Nested
<1>14. Supplied(t)'
  BY <1>2, <1>3, <1>5 DEF Supplied, At
<1>. QED
  BY <1>6, <1>7, <1>8, <1>10, <1>11, <1>12, <1>13, <1>14 DEF CacheIInv

(* The task goes on to another stage and leaves the cache alone. *)
LEMMA ProceedKeeps ==
    ASSUME CacheIInv, NEW t \in Task, calls[t] # <<>>, NEW stage \in Stage, Proceed(t, stage),
           UNCHANGED <<dir, whole, quiet, cached>>, ~At(t, Refetching),
           stage \in {"try", "fetch", "final"},
           t \in quiet =>
               /\ t \in cached => stage = "try"
               /\ stage = "fetch" /\ Target(t) = Sdk => ~Wedged
               /\ stage = "final" => At(t, {"deps"}) /\ calls[t][1].todo = <<>>
    PROVE  CacheIInv'
<1>1. CacheTypeInv
  BY DEF CacheIInv
<1>. PICK f \in Frame :
        /\ f.package = Target(t) /\ f.at = stage /\ f.todo = calls[t][1].todo
        /\ calls' = [calls EXCEPT ![t] = <<f>> \o Tail(calls[t])]
        /\ outcome' = outcome
  BY <1>1, ProceedForm
<1>2. /\ calls'[t] # <<>> /\ calls'[t][1] = f /\ Target(t)' = Target(t)
      /\ Len(calls'[t]) = Len(calls[t])
  BY <1>1, Moves
<1>3. ASSUME t \in quiet PROVE Kept(t)
  BY <1>3, KeptNow
<1>4. ASSUME t \in quiet PROVE t \in cached => InPlace(t)'
  <2>. SUFFICES ASSUME t \in cached PROVE InPlace(t)'
    OBVIOUS
  <2>1. InPlace(t) /\ stage = "try"
    BY <1>3, <1>4 DEF Kept
  <2>2. Importable(Target(t))' /\ \A d \in Needs[Target(t)] : Installable(d)'
    BY <1>2, <2>1 DEF InPlace, Importable, Installable, Ready
  <2>3. Len(calls'[t]) = 1 /\ At(t, {"check", "try", "tryImport"})'
    BY <1>2, <2>1 DEF InPlace, At
  <2>. QED
    BY <1>2, <2>2, <2>3 DEF InPlace
<1>5. ASSUME t \in quiet PROVE Innermost(t)'
  <2>1. Wedged' => Wedged
    BY DEF Wedged
  <2>2. stage = "final" => Settled(Target(t))
    BY <1>3, <1>5 DEF Kept, Innermost, At
  <2>3. stage = "final" => Settled(Target(t))'
    BY <1>2, <2>2 DEF Settled
  <2>. QED
    BY <1>2, <1>5, <2>1, <2>3 DEF Innermost, At, Fetching
<1>6. Settled(Target(t)) => Settled(Target(t))'
  BY <1>2 DEF Settled
<1>7. ASSUME t \in quiet PROVE Elements(f.todo) \subseteq Elements(Deps[Target(t)])
  BY <1>1, <1>3, <1>7, TodoForm DEF Kept
<1>8. ASSUME t \in quiet, ~Wedged', stage = "final"
      PROVE  \A d \in Obtained(f) : \A x \in Needs[d] : Ready(x)'
  <2>1. Supplied(t) /\ At(t, {"deps", "final", "finalImport"})
    BY <1>3, <1>8 DEF Kept, Wedged, At
  <2>2. Obtained(f) = Obtained(calls[t][1])
    BY DEF Obtained, Target
  <2>3. \A d \in Obtained(f) : \A x \in Needs[d] : Ready(x)
    BY <2>1, <2>2 DEF Supplied
  <2>. QED
    BY <2>3 DEF Ready
<1>9. /\ dir' \in [Package -> Directory \cup {Absent}] /\ whole' \subseteq Task
      /\ Wedged => Wedged'
  BY <1>1 DEF CacheTypeInv, Wedged
<1>. QED
  BY <1>4, <1>5, <1>6, <1>7, <1>8, <1>9, StepKeeps

LEMMA CheckExistsStep ==
    ASSUME CacheIInv, NEW t \in Task, CheckExists(t)
    PROVE  CacheIInv'
<1>1. calls[t] # <<>> /\ ~At(t, Refetching) /\ CacheTypeInv
  BY DEF CheckExists, At, Refetching, CacheIInv
<1>2. PICK stage \in Stage :
         /\ stage = IF dir[Target(t)] = Absent THEN "fetch" ELSE "try"
         /\ Proceed(t, stage)
         /\ UNCHANGED <<dir, whole, quiet, cached>>
  BY DEF CheckExists, Stage
<1>3. ASSUME t \in quiet, t \in cached PROVE stage = "try"
  <2>1. InPlace(t)
    BY <1>1, <1>3, KeptNow DEF Kept
  <2>2. Ready(Target(t))
    BY <1>1, <2>1, FrameForm, NeedsForm DEF InPlace, Importable
  <2>. QED
    BY <1>2, <2>2 DEF Ready
<1>. QED
  BY <1>1, <1>2, <1>3, ProceedKeeps DEF Wedged

(* Registering from a directory that is there fails, the first time. *)
LEMMA SecondTryStep ==
    ASSUME CacheIInv, NEW t \in Task, At(t, {"try", "tryImport"}), Proceed(t, "fetch"),
           UNCHANGED <<dir, whole, quiet, cached>>,
           t \in quiet => ~InPlace(t) /\ (Target(t) = Sdk => ~Wedged)
    PROVE  CacheIInv'
<1>1. calls[t] # <<>> /\ ~At(t, Refetching) /\ "fetch" \in Stage
  BY DEF At, Refetching, Stage
<1>2. t \in quiet => t \notin cached
  BY <1>1, KeptNow DEF Kept
<1>. QED
  BY <1>1, <1>2, ProceedKeeps

LEMMA InstallStep ==
    ASSUME CacheIInv, NEW t \in Task, Install(t)
    PROVE  CacheIInv'
<1>1. CacheTypeInv /\ calls[t] # <<>> /\ ~At(t, Refetching)
  BY DEF CacheIInv, Install, At, Refetching
<1>. PICK u \in Package : u = Target(t)
  BY <1>1, FrameForm
<1>2. At(t, {"try", "final"}) /\ UNCHANGED <<whole, quiet, cached>>
  BY DEF Install
<1>3. Needs[u] \subseteq Package /\ u \in Needs[u]
  BY NeedsForm
<1>4. CASE ~Installable(u)
  <2>1. LocalFails(t) /\ UNCHANGED dir
    BY <1>4 DEF Install
  <2>2. CASE At(t, {"try"})
    <3>1. Proceed(t, "fetch") /\ At(t, {"try", "tryImport"})
      BY <2>1, <2>2 DEF LocalFails, At
    <3>2. ~InPlace(t) /\ (u = Sdk => ~Wedged)
      BY <1>3, <1>4 DEF InPlace, Installable, Wedged
    <3>. QED
      BY <1>2, <2>1, <3>1, <3>2, SecondTryStep
  <2>3. CASE ~At(t, {"try"})
    <3>1. Reject(t)
      BY <1>2, <2>1, <2>3 DEF LocalFails, At
    <3>2. /\ calls' = [calls EXCEPT ![t] = <<>>]
          /\ outcome' \in [Task -> {"none", "registered", "failed"}]
      BY <1>1, <3>1 DEF Reject, CacheTypeInv
    <3>. QED
      BY <1>1, <1>2, <2>1, <3>2, RejectKeeps DEF CacheTypeInv
  <2>. QED
    BY <2>2, <2>3
<1>5. CASE Installable(u)
  <2>1. dir' = [dir EXCEPT ![u].installed = TRUE] /\ dir[u] # Absent
    BY <1>5 DEF Install, Installable
  <2>2. dir[u] \in Directory
    BY <1>1, <2>1, DirForm
  <2>3. /\ dir' \in [Package -> Directory \cup {Absent}] /\ dir'[u] \in Directory
        /\ \A x \in Package \ {u} : dir'[x] = dir[x]
        /\ dir'[u].json = dir[u].json /\ dir'[u].complete = dir[u].complete
        /\ dir'[u].installed
    BY <1>1, <2>1, <2>2 DEF CacheTypeInv, Directory
  <2>4. dir'[u] # Absent
    BY <2>3, ModuleCacheAssumption
  <2>5. Wedged => Wedged'
    BY <2>3, <2>4, SdkNeeds DEF Wedged
  <2>6. Wedged' => Wedged
    BY <2>1, <2>3, SdkNeeds DEF Wedged
  <2>7. Settled(u) => Settled(u)'
    BY <2>3, <2>4 DEF Settled
  <2>8. \A x \in Package : Ready(x) => Ready(x)'
    BY <2>3, <2>4 DEF Ready
  <2>9. CASE u = Sdk
    <3>1. Return(t)
      BY <1>5, <2>9 DEF Install
    <3>2. ASSUME ~Wedged' PROVE \A x \in Needs[u] : Ready(x)'
      <4>1. dir[u].json = "prepared"
        BY <1>5, <2>9 DEF Installable
      <4>2. dir'[u].complete
        BY <2>3, <2>4, <2>9, <3>2, <4>1 DEF Wedged
      <4>. QED
        BY <2>3, <2>4, <2>9, <4>2, SdkNeeds DEF Ready
    <3>. QED
      BY <1>1, <1>2, <2>3, <2>5, <2>7, <3>1, <3>2, ReturnKeeps
  <2>10. CASE u # Sdk
    <3>. PICK stage \in {"tryImport", "finalImport"} :
            stage = IF At(t, {"try"}) THEN "tryImport" ELSE "finalImport"
      OBVIOUS
    <3>1. Proceed(t, stage) /\ stage \in Stage
      BY <1>5, <2>10 DEF Install, Stage
    <3>. PICK f \in Frame :
            /\ f.package = Target(t) /\ f.at = stage /\ f.todo = calls[t][1].todo
            /\ calls' = [calls EXCEPT ![t] = <<f>> \o Tail(calls[t])]
            /\ outcome' = outcome
      BY <1>1, <3>1, ProceedForm
    <3>2. /\ calls'[t] # <<>> /\ calls'[t][1] = f /\ Target(t)' = u
          /\ Len(calls'[t]) = Len(calls[t])
      BY <1>1, Moves
    <3>3. stage = "finalImport" => At(t, {"final"})
      BY <1>2 DEF At
    <3>4. ASSUME t \in quiet PROVE Kept(t)
      BY <1>1, <3>4, KeptNow
    <3>5. ASSUME t \in quiet, t \in cached PROVE InPlace(t)'
      <4>1. InPlace(t)
        BY <3>4, <3>5 DEF Kept
      <4>2. stage = "tryImport"
        BY <3>3, <4>1 DEF InPlace, At
      <4>3. \A x \in Needs[u] : Ready(x)' /\ Installable(x)'
        <5>1. \A x \in Package : Installable(x) => Installable(x)'
          BY <2>3, <2>4 DEF Installable
        <5>. QED
          BY <1>3, <2>8, <4>1, <5>1 DEF InPlace, Importable
      <4>4. Len(calls'[t]) = 1 /\ At(t, {"check", "try", "tryImport"})'
        BY <3>2, <4>1, <4>2 DEF InPlace, At
      <4>5. Importable(u)' /\ \A d \in Needs[u] : Installable(d)'
        BY <4>3 DEF Importable
      <4>. QED
        BY <3>2, <4>4, <4>5 DEF InPlace
    <3>6. ASSUME t \in quiet PROVE Innermost(t)'
      <4>1. stage = "finalImport" => Settled(u) /\ calls[t][1].todo = <<>>
        BY <3>3, <3>4, <3>6 DEF Kept, Innermost, At
      <4>2. stage = "finalImport" => Settled(u)' /\ dir'[u].installed
        BY <2>3, <2>7, <4>1
      <4>. QED
        BY <2>10, <3>2, <4>1, <4>2 DEF Innermost, At, Settled
    <3>7. Settled(Target(t)) => Settled(Target(t))'
      BY <2>7, <3>2 DEF Settled
    <3>8. ASSUME t \in quiet PROVE Elements(f.todo) \subseteq Elements(Deps[u])
      BY <1>1, <3>4, <3>8, TodoForm DEF Kept
    <3>9. ASSUME t \in quiet, ~Wedged', stage = "finalImport"
          PROVE  \A d \in Obtained(f) : \A x \in Needs[d] : Ready(x)'
      <4>1. Supplied(t) /\ At(t, {"deps", "final", "finalImport"})
        BY <2>5, <3>3, <3>4, <3>9 DEF Kept, At
      <4>2. Obtained(f) = Obtained(calls[t][1])
        BY DEF Obtained, Target
      <4>3. \A d \in Obtained(f) : \A x \in Needs[d] : Ready(x)
        BY <4>1, <4>2 DEF Supplied
      <4>4. \A d \in Obtained(f) : Needs[d] \subseteq Package
        <5>1. Obtained(f) \subseteq Package
          BY NeedsForm DEF Obtained
        <5>. QED
          BY <5>1, NeedsForm
      <4>. QED
        BY <2>8, <4>3, <4>4
    <3>. QED
      <4>1. \A x \in Package \ {Target(t)} : dir'[x] = dir[x]
        BY <2>3
      <4>2. t \in quiet =>
              /\ t \in cached => InPlace(t)'
              /\ Innermost(t)'
              /\ ~At(t, Refetching) /\ (Settled(Target(t)) => Settled(Target(t))')
              /\ Elements(f.todo) \subseteq Elements(Deps[Target(t)])
              /\ Wedged => Wedged'
              /\ ~Wedged' /\ f.at \in {"deps", "final", "finalImport"} =>
                    \A d \in Obtained(f) : \A x \in Needs[d] : Ready(x)'
        BY <1>1, <2>5, <3>5, <3>6, <3>7, <3>8, <3>9
      <4>3. dir' \in [Package -> Directory \cup {Absent}] /\ whole' \subseteq Task
        BY <1>1, <1>2, <2>3 DEF CacheTypeInv
      <4>. QED
        BY <1>1, <1>2, <4>1, <4>2, <4>3, StepKeeps
  <2>. QED
    BY <2>9, <2>10
<1>. QED
  BY <1>4, <1>5

LEMMA ImportStep ==
    ASSUME CacheIInv, NEW t \in Task, Import(t)
    PROVE  CacheIInv'
<1>1. CacheTypeInv /\ calls[t] # <<>> /\ ~At(t, Refetching)
  BY DEF CacheIInv, Import, At, Refetching
<1>. PICK u \in Package : u = Target(t)
  BY <1>1, FrameForm
<1>2. At(t, {"tryImport", "finalImport"}) /\ UNCHANGED <<dir, whole, quiet, cached>>
  BY DEF Import
<1>3. CASE Importable(u)
  <2>1. Return(t)
    BY <1>3 DEF Import
  <2>2. \A x \in Needs[u] : Ready(x)'
    BY <1>2, <1>3 DEF Importable, Ready
  <2>3. dir' \in [Package -> Directory \cup {Absent}] /\ (Wedged => Wedged')
        /\ (Settled(u) => Settled(u)')
    BY <1>1, <1>2 DEF CacheTypeInv, Wedged, Settled
  <2>. QED
    BY <1>1, <1>2, <2>1, <2>2, <2>3, ReturnKeeps
<1>4. CASE ~Importable(u)
  <2>1. LocalFails(t)
    BY <1>4 DEF Import
  <2>2. CASE At(t, {"try", "tryImport"})
    <3>1. Proceed(t, "fetch")
      BY <2>1, <2>2 DEF LocalFails
    <3>2. ~InPlace(t) /\ (t \in quiet => u # Sdk)
      BY <1>1, <1>2, <1>4, KeptNow DEF InPlace, Kept, Innermost
    <3>. QED
      BY <1>2, <2>2, <3>1, <3>2, SecondTryStep
  <2>3. CASE ~At(t, {"try", "tryImport"})
    <3>1. /\ calls' = [calls EXCEPT ![t] = <<>>]
          /\ outcome' \in [Task -> {"none", "registered", "failed"}]
      BY <1>1, <2>1, <2>3 DEF LocalFails, Reject, CacheTypeInv
    <3>. QED
      BY <1>1, <1>2, <3>1, RejectKeeps DEF CacheTypeInv
  <2>. QED
    BY <2>2, <2>3
<1>. QED
  BY <1>3, <1>4

(* A step that fetches a package again. *)
LEMMA FetchKeeps ==
    ASSUME CacheIInv, NEW t \in Task, calls[t] # <<>>, ~At(t, {"check", "try", "tryImport"}),
           NEW f \in Frame, f.package = Target(t),
           calls' = [calls EXCEPT ![t] = <<f>> \o Tail(calls[t])],
           dir' \in [Package -> Directory \cup {Absent}], whole' \subseteq Task,
           outcome' = outcome, quiet' = quiet, cached' = cached,
           \A u \in Package \ {Target(t)} : dir'[u] = dir[u],
           f.at \in Refetching \/ (f.at = "deps" /\ (t \in quiet => Obtained(f) = {})),
           t \in quiet =>
               /\ Innermost(t)'
               /\ Elements(f.todo) \subseteq Elements(Deps[Target(t)])
               /\ Wedged => Wedged'
    PROVE  CacheIInv'
<1>1. ASSUME t \in quiet PROVE t \notin cached
  BY <1>1, KeptNow DEF Kept, InPlace
<1>2. ASSUME t \in quiet, f.at = "deps" PROVE Settled(Target(t))'
  <2>1. calls'[t] # <<>> /\ calls'[t][1] = f
    BY Moves DEF CacheIInv
  <2>. QED
    BY <1>2, <2>1 DEF Innermost, At
<1>3. f.at \in {"deps", "final", "finalImport"} => f.at = "deps" /\ (t \in quiet => Obtained(f) = {})
  BY DEF Refetching
<1>4. t \in quiet =>
        /\ t \in cached => InPlace(t)'
        /\ Innermost(t)'
        /\ Settled(Target(t))' \/ f.at \in Refetching
        /\ Elements(f.todo) \subseteq Elements(Deps[Target(t)])
        /\ Wedged => Wedged'
        /\ ~Wedged' /\ f.at \in {"deps", "final", "finalImport"} =>
              \A d \in Obtained(f) : \A x \in Needs[d] : Ready(x)'
  BY <1>1, <1>2, <1>3
<1>. QED
  BY <1>4, StepKeeps

LEMMA FetchProceeds ==
    ASSUME CacheIInv, NEW t \in Task, At(t, {"clean", "extract", "extractRest", "save"}),
           NEW stage \in {"extract", "extractRest", "load", "deps"}, Proceed(t, stage),
           NEW content \in Directory \cup {Absent}, dir' = [dir EXCEPT ![Target(t)] = content],
           whole' \subseteq Task, quiet' = quiet, cached' = cached,
           t \in quiet =>
               /\ Target(t) = Sdk => ~Wedged
               /\ stage = "extract" => content = Fresh /\ t \in whole'
               /\ stage = "extractRest" => content # Absent /\ content.json = "raw" /\ t \in whole'
               /\ stage = "load" => content # Absent /\ content.json = "raw" /\ content.complete
               /\ stage = "deps" => /\ content # Absent /\ content.json = "prepared"
                                    /\ content.complete /\ calls[t][1].todo = Deps[Target(t)]
    PROVE  CacheIInv'
<1>1. CacheTypeInv /\ calls[t] # <<>> /\ ~At(t, {"check", "try", "tryImport"}) /\ stage \in Stage
  BY DEF CacheIInv, At, Stage
<1>. PICK f \in Frame :
        /\ f.package = Target(t) /\ f.at = stage /\ f.todo = calls[t][1].todo
        /\ calls' = [calls EXCEPT ![t] = <<f>> \o Tail(calls[t])]
        /\ outcome' = outcome
  BY <1>1, ProceedForm
<1>2. calls'[t] # <<>> /\ calls'[t][1] = f /\ Target(t)' = Target(t)
  BY <1>1, Moves
<1>3. Target(t) \in Package
  BY <1>1, FrameForm
<1>4. /\ dir' \in [Package -> Directory \cup {Absent}] /\ dir'[Target(t)] = content
      /\ \A u \in Package \ {Target(t)} : dir'[u] = dir[u]
  BY <1>1, <1>3 DEF CacheTypeInv
<1>5. ASSUME t \in quiet PROVE Innermost(t)'
  BY <1>2, <1>4, <1>5 DEF Innermost, At, Settled, Fetching
<1>6. ASSUME t \in quiet PROVE Elements(f.todo) \subseteq Elements(Deps[Target(t)])
  BY <1>1, <1>6, KeptNow, TodoForm DEF Kept
<1>7. ASSUME t \in quiet, Wedged PROVE Wedged'
  BY <1>3, <1>4, <1>7, SdkNeeds DEF Wedged
<1>8. stage \in Refetching \/ (stage = "deps" /\ (t \in quiet => Obtained(f) = {}))
  BY DEF Refetching, Obtained
<1>. QED
  BY <1>1, <1>4, <1>5, <1>6, <1>7, <1>8, FetchKeeps

(* What t finds while it fetches a package. *)
LEMMA FetchFinds ==
    ASSUME CacheIInv, NEW t \in Task, t \in quiet, calls[t] # <<>>
    PROVE  /\ At(t, Fetching) /\ Target(t) = Sdk => ~Wedged
           /\ At(t, {"extract"}) => dir[Target(t)] = Fresh /\ Fresh # Absent /\ t \in whole
           /\ At(t, {"extractRest"}) => /\ dir[Target(t)] # Absent /\ dir[Target(t)].json = "raw"
                                        /\ t \in whole
           /\ At(t, {"load", "save"}) => /\ dir[Target(t)] # Absent /\ dir[Target(t)].json = "raw"
                                         /\ dir[Target(t)].complete
           /\ At(t, {"save"}) => calls[t][1].todo = Deps[Target(t)]
<1>1. Innermost(t)
  BY KeptNow DEF Kept
<1>2. Fresh # Absent
  <2>1. Fresh \in Directory
    BY DEF Fresh, Directory
  <2>. QED
    BY <2>1, ModuleCacheAssumption
<1>. QED
  BY <1>1, <1>2 DEF Innermost

(* A step on the way to the archive, which at most creates the directory.  *)
LEMMA FetchGoesOn ==
    ASSUME CacheIInv, NEW t \in Task, At(t, Fetching),
           NEW stage \in {"open", "write", "clean"}, Proceed(t, stage),
           \/ dir' = dir
           \/ dir[Target(t)] = Absent /\ dir' = [dir EXCEPT ![Target(t)] = Fresh],
           UNCHANGED <<whole, quiet, cached>>
    PROVE  CacheIInv'
<1>1. /\ CacheTypeInv /\ calls[t] # <<>> /\ ~At(t, {"check", "try", "tryImport"})
      /\ ~At(t, Refetching) /\ stage \in Stage /\ stage \notin {"deps", "final", "finalImport"}
  BY DEF CacheIInv, At, Stage, Fetching, Refetching
<1>. PICK f \in Frame :
        /\ f.package = Target(t) /\ f.at = stage /\ f.todo = calls[t][1].todo
        /\ calls' = [calls EXCEPT ![t] = <<f>> \o Tail(calls[t])]
        /\ outcome' = outcome
  BY <1>1, ProceedForm
<1>2. calls'[t] # <<>> /\ calls'[t][1] = f /\ Target(t)' = Target(t)
  BY <1>1, Moves
<1>. PICK u \in Package : u = Target(t)
  BY <1>1, FrameForm
<1>3. Fresh \in Directory /\ Fresh.json = "absent"
  BY DEF Fresh, Directory
<1>4. /\ dir' \in [Package -> Directory \cup {Absent}]
      /\ \A d \in Package \ {u} : dir'[d] = dir[d]
      /\ \A d \in Package : dir[d] # Absent => dir'[d] = dir[d]
      /\ \A d \in Package : dir'[d] # dir[d] => dir'[d] = Fresh
  BY <1>1, <1>3 DEF CacheTypeInv
<1>5. Wedged' <=> Wedged
  BY <1>3, <1>4, SdkNeeds DEF Wedged
<1>6. Settled(u) => Settled(u)'
  BY <1>4 DEF Settled
<1>7. ASSUME t \in quiet PROVE t \notin cached
  BY <1>1, <1>7, KeptNow DEF Kept, InPlace
<1>8. ASSUME t \in quiet PROVE Innermost(t)'
  <2>1. u = Sdk => ~Wedged
    BY <1>1, <1>8, FetchFinds
  <2>2. ~At(t, Stage \ {"open", "write", "clean"})'
    BY <1>2 DEF At
  <2>. QED
    BY <1>2, <1>5, <2>1, <2>2 DEF Innermost, At, Stage
<1>9. ASSUME t \in quiet PROVE Elements(f.todo) \subseteq Elements(Deps[Target(t)])
  BY <1>1, <1>9, KeptNow, TodoForm DEF Kept
<1>10. whole' \subseteq Task
  BY <1>1 DEF CacheTypeInv
<1>11. Settled(Target(t)) => Settled(Target(t))'
  BY <1>2, <1>6 DEF Settled
<1>. QED
  BY <1>1, <1>4, <1>5, <1>7, <1>8, <1>9, <1>10, <1>11, StepKeeps

LEMMA DownloadStep ==
    ASSUME CacheIInv, NEW t \in Task, Download(t) \/ Receive(t) \/ Received(t)
    PROVE  CacheIInv'
<1>1. /\ At(t, Fetching) /\ UNCHANGED <<whole, quiet, cached>>
      /\ \/ dir' = dir
         \/ dir[Target(t)] = Absent /\ dir' = [dir EXCEPT ![Target(t)] = Fresh]
  BY DEF Download, Receive, Received, At, Fetching
<1>2. Proceed(t, "open") \/ Proceed(t, "write") \/ Proceed(t, "clean")
  BY DEF Download, Receive, Received
<1>. QED
  BY <1>1, <1>2, FetchGoesOn

LEMMA FetchRejects ==
    ASSUME CacheIInv, NEW t \in Task, calls[t] # <<>>, Reject(t),
           dir' \in [Package -> Directory \cup {Absent}], UNCHANGED <<whole, quiet, cached>>
    PROVE  CacheIInv'
<1>1. /\ calls' = [calls EXCEPT ![t] = <<>>]
      /\ outcome' \in [Task -> {"none", "registered", "failed"}]
  BY DEF Reject, CacheIInv, CacheTypeInv
<1>. QED
  BY <1>1, RejectKeeps

LEMMA CleanStep ==
    ASSUME CacheIInv, NEW t \in Task, Clean(t)
    PROVE  CacheIInv'
<1>1. /\ At(t, {"clean"}) /\ calls[t] # <<>> /\ quiet' = quiet /\ cached' = cached
      /\ At(t, {"clean", "extract", "extractRest", "save"}) /\ At(t, Fetching)
  BY DEF Clean, At, Fetching
<1>2. CASE Reject(t) /\ UNCHANGED <<dir, whole>>
  BY <1>1, <1>2, FetchRejects DEF CacheIInv, CacheTypeInv
<1>3. CASE /\ dir' = [dir EXCEPT ![Target(t)] = Fresh]
           /\ whole' = {s \in whole : calls[s] # <<>> /\ Target(s) # Target(t)} \cup {t}
           /\ Proceed(t, "extract")
  <2>1. whole' \subseteq Task /\ t \in whole'
    BY <1>3 DEF CacheIInv, CacheTypeInv
  <2>2. Fresh \in Directory
    BY DEF Fresh, Directory
  <2>. QED
    BY <1>1, <1>3, <2>1, <2>2, FetchProceeds, FetchFinds
<1>. QED
  BY <1>2, <1>3 DEF Clean

LEMMA ExtractJsonStep ==
    ASSUME CacheIInv, NEW t \in Task, ExtractJson(t)
    PROVE  CacheIInv'
<1>1. /\ At(t, {"extract"}) /\ calls[t] # <<>> /\ UNCHANGED <<whole, quiet, cached>>
      /\ At(t, {"clean", "extract", "extractRest", "save"})
  BY DEF ExtractJson, At
<1>2. CASE Reject(t) /\ UNCHANGED dir
  BY <1>1, <1>2, FetchRejects DEF CacheIInv, CacheTypeInv
<1>3. CASE /\ dir[Target(t)] # Absent /\ Proceed(t, "extractRest")
           /\ dir' = [dir EXCEPT ![Target(t)].json = "raw"]
  <2>1. PICK u \in Package : u = Target(t) /\ dir[u] \in Directory
    BY <1>1, <1>3, FrameForm, DirForm DEF CacheIInv
  <2>2. PICK content : content = [dir[u] EXCEPT !.json = "raw"]
    OBVIOUS
  <2>3. content \in Directory /\ content.json = "raw"
    BY <2>1, <2>2 DEF Directory
  <2>4. dir' = [dir EXCEPT ![Target(t)] = content]
    BY <1>3, <2>1, <2>2
  <2>5. content # Absent
    BY <2>3, ModuleCacheAssumption
  <2>6. whole' \subseteq Task
    BY <1>1 DEF CacheIInv, CacheTypeInv
  <2>7. t \in quiet => (Target(t) = Sdk => ~Wedged) /\ t \in whole'
    BY <1>1, FetchFinds DEF Wedged, Fresh
  <2>. QED
    BY <1>1, <1>3, <2>3, <2>4, <2>5, <2>6, <2>7, FetchProceeds
<1>. QED
  BY <1>2, <1>3 DEF ExtractJson

LEMMA ExtractRestStep ==
    ASSUME CacheIInv, NEW t \in Task, ExtractRest(t)
    PROVE  CacheIInv'
<1>1. /\ At(t, {"extractRest"}) /\ calls[t] # <<>> /\ UNCHANGED <<whole, quiet, cached>>
      /\ At(t, {"clean", "extract", "extractRest", "save"}) /\ CacheTypeInv
  BY DEF ExtractRest, At, CacheIInv
<1>. PICK u \in Package : u = Target(t)
  BY <1>1, FrameForm
<1>2. PICK filled : filled = IF t \in whole THEN [dir EXCEPT ![u].complete = TRUE] ELSE dir
  OBVIOUS
<1>3. \/ Reject(t) /\ dir' = dir
      \/ dir[u] # Absent /\ Reject(t) /\ dir' \in {dir, filled}
      \/ dir[u] # Absent /\ Proceed(t, "load") /\ dir' = filled
  BY <1>2 DEF ExtractRest
<1>4. CASE Reject(t) /\ dir' = dir
  BY <1>1, <1>4, FetchRejects DEF CacheTypeInv
<1>. SUFFICES ASSUME dir[u] # Absent, \/ Reject(t) /\ dir' \in {dir, filled}
                                      \/ Proceed(t, "load") /\ dir' = filled
              PROVE  CacheIInv'
  BY <1>3, <1>4
<1>5. dir[u] \in Directory
  BY <1>1, DirForm
<1>6. PICK content : content = IF t \in whole THEN [dir[u] EXCEPT !.complete = TRUE] ELSE dir[u]
  OBVIOUS
<1>7. content \in Directory /\ content.json = dir[u].json /\ (t \in whole => content.complete)
  BY <1>5, <1>6 DEF Directory
<1>8. filled = [dir EXCEPT ![u] = content] /\ filled \in [Package -> Directory \cup {Absent}]
  <2>1. dir \in [Package -> Directory \cup {Absent}]
    BY <1>1 DEF CacheTypeInv
  <2>2. filled = [dir EXCEPT ![u] = content]
    BY <1>2, <1>6, <2>1
  <2>. QED
    BY <1>7, <2>1, <2>2
<1>9. CASE Reject(t) /\ dir' \in {dir, filled}
  BY <1>1, <1>8, <1>9, FetchRejects DEF CacheTypeInv
<1>10. CASE Proceed(t, "load") /\ dir' = filled
  <2>1. content # Absent
    BY <1>7, ModuleCacheAssumption
  <2>2. whole' \subseteq Task
    BY <1>1 DEF CacheTypeInv
  <2>3. t \in quiet => /\ Target(t) = Sdk => ~Wedged
                       /\ content.json = "raw" /\ content.complete
    BY <1>1, <1>7, FetchFinds DEF Wedged
  <2>. QED
    BY <1>1, <1>7, <1>8, <1>10, <2>1, <2>2, <2>3, FetchProceeds
<1>. QED
  BY <1>9, <1>10

LEMMA SaveJsonStep ==
    ASSUME CacheIInv, NEW t \in Task, SaveJson(t)
    PROVE  CacheIInv'
<1>1. /\ At(t, {"save"}) /\ calls[t] # <<>> /\ UNCHANGED <<whole, quiet, cached>>
      /\ At(t, {"clean", "extract", "extractRest", "save"}) /\ At(t, {"load", "save"})
  BY DEF SaveJson, At
<1>2. CASE dir[Target(t)] = Absent
  BY <1>1, <1>2, FetchRejects DEF SaveJson, CacheIInv, CacheTypeInv
<1>3. CASE dir[Target(t)] # Absent
  <2>1. PICK u \in Package : u = Target(t) /\ dir[u] \in Directory
    BY <1>1, <1>3, FrameForm, DirForm DEF CacheIInv
  <2>2. PICK content : content = [dir[u] EXCEPT !.json = "prepared"]
    OBVIOUS
  <2>3. content \in Directory /\ content.json = "prepared" /\ content.complete = dir[u].complete
    BY <2>1, <2>2 DEF Directory
  <2>4. Proceed(t, "deps") /\ dir' = [dir EXCEPT ![Target(t)] = content]
    BY <1>3, <2>1, <2>2 DEF SaveJson
  <2>5. content # Absent
    BY <2>3, ModuleCacheAssumption
  <2>6. whole' \subseteq Task
    BY <1>1 DEF CacheIInv, CacheTypeInv
  <2>7. t \in quiet => /\ Target(t) = Sdk => ~Wedged
                       /\ content.complete /\ calls[t][1].todo = Deps[Target(t)]
    BY <1>1, <2>1, <2>3, FetchFinds DEF Wedged
  <2>. QED
    BY <1>1, <2>3, <2>4, <2>5, <2>6, <2>7, FetchProceeds
<1>. QED
  BY <1>2, <1>3

LEMMA LoadJsonStep ==
    ASSUME CacheIInv, NEW t \in Task, LoadJson(t)
    PROVE  CacheIInv'
<1>1. /\ At(t, {"load"}) /\ calls[t] # <<>> /\ UNCHANGED <<dir, whole, quiet, cached>>
      /\ At(t, {"load", "save"}) /\ ~At(t, {"check", "try", "tryImport"}) /\ CacheTypeInv
  BY DEF LoadJson, At, CacheIInv
<1>. PICK u \in Package : u = Target(t)
  BY <1>1, FrameForm
<1>2. CASE dir[u] = Absent \/ dir[u].json = "absent"
  BY <1>1, <1>2, FetchRejects DEF LoadJson, CacheTypeInv
<1>3. CASE ~(dir[u] = Absent \/ dir[u].json = "absent")
  <2>1. PICK todo : todo = IF dir[u] # Absent /\ dir[u].json = "raw" THEN Deps[u] ELSE <<>>
    OBVIOUS
  <2>2. todo \in Seq(Package) /\ Elements(todo) \subseteq Elements(Deps[u])
    BY <2>1, NeedsForm DEF Elements
  <2>3. PICK f : f = Call(u, "save", todo)
    OBVIOUS
  <2>4. f \in Frame /\ f.package = Target(t) /\ f.at = "save" /\ f.todo = todo
    BY <2>2, <2>3 DEF Call, Frame, Stage
  <2>5. calls' = [calls EXCEPT ![t] = <<f>> \o Tail(calls[t])] /\ outcome' = outcome
    BY <1>3, <2>1, <2>3 DEF LoadJson
  <2>6. calls'[t] # <<>> /\ calls'[t][1] = f /\ Target(t)' = Target(t)
    BY <1>1, <2>4, <2>5, Moves
  <2>7. ASSUME t \in quiet PROVE Innermost(t)'
    <3>1. dir[u] # Absent /\ dir[u].json = "raw" /\ dir[u].complete
      BY <1>1, <2>7, FetchFinds
    <3>. QED
      BY <1>1, <2>1, <2>4, <2>6, <3>1 DEF Innermost, At, Fetching
  <2>8. /\ dir' \in [Package -> Directory \cup {Absent}] /\ whole' \subseteq Task
        /\ (Wedged => Wedged') /\ f.at \in Refetching
    BY <1>1, <2>4 DEF CacheTypeInv, Wedged, Refetching
  <2>. QED
    BY <1>1, <2>2, <2>4, <2>5, <2>7, <2>8, FetchKeeps
<1>. QED
  BY <1>2, <1>3

LEMMA CacheStart == CacheInit => CacheIInv
<1>. SUFFICES ASSUME CacheInit PROVE CacheIInv
  OBVIOUS
<1>1. <<>> \in Seq(Frame)
  OBVIOUS
<1>2. CacheTypeInv
  BY <1>1 DEF CacheInit, CacheTypeInv
<1>. QED
  BY <1>2 DEF CacheInit, CacheIInv, Lone

LEMMA CacheStep == CacheIInv /\ [CacheNext]_cacheVars => CacheIInv'
<1>. SUFFICES ASSUME CacheIInv, [CacheNext]_cacheVars PROVE CacheIInv'
  OBVIOUS
<1>1. ASSUME NEW t \in Task, NextDependency(t) PROVE CacheIInv'
  <2>1. calls[t] # <<>> /\ At(t, {"deps"}) /\ ~At(t, Refetching) /\ "final" \in Stage
        /\ calls[t][1].at = "deps" /\ UNCHANGED <<dir, whole, quiet, cached>>
    BY <1>1 DEF NextDependency, At, Refetching, Stage
  <2>2. CASE calls[t][1].todo = <<>>
    <3>1. Proceed(t, "final")
      BY <1>1, <2>2 DEF NextDependency
    <3>2. t \in quiet => t \notin cached
      BY <2>1, KeptNow DEF Kept, InPlace, At
    <3>. QED
      BY <2>1, <2>2, <3>1, <3>2, ProceedKeeps
  <2>3. CASE calls[t][1].todo # <<>>
    BY <1>1, <2>3, NextDependencyStep
  <2>. QED
    BY <2>2, <2>3
<1>2. ASSUME NEW t \in Task, NetworkFails(t) PROVE CacheIInv'
  <2>1. calls[t] # <<>> /\ quiet' = quiet \ {t} /\ UNCHANGED <<dir, whole, cached>>
    BY <1>2 DEF NetworkFails, At
  <2>2. CASE Reject(t)
    <3>1. /\ calls' = [calls EXCEPT ![t] = <<>>]
          /\ outcome' \in [Task -> {"none", "registered", "failed"}]
      BY <2>2 DEF Reject, CacheIInv, CacheTypeInv
    <3>. QED
      BY <2>1, <3>1, RejectKeeps DEF CacheIInv, CacheTypeInv
  <2>3. CASE Proceed(t, "fetch") \/ Proceed(t, "clean")
    <3>1. "fetch" \in Stage /\ "clean" \in Stage /\ CacheTypeInv
      BY DEF Stage, CacheIInv
    <3>2. PICK f \in Frame :
            /\ f.package = Target(t)
            /\ calls' = [calls EXCEPT ![t] = <<f>> \o Tail(calls[t])]
            /\ outcome' = outcome
      BY <2>1, <2>3, <3>1, ProceedForm
    <3>3. calls' \in [Task -> Seq(Frame)] /\ \A s \in Task \ {t} : calls'[s] = calls[s]
      BY <2>1, <3>1, <3>2, Moves
    <3>4. CacheTypeInv'
      BY <2>1, <3>1, <3>2, <3>3 DEF CacheTypeInv
    <3>. QED
      BY <2>1, <3>3, <3>4, ActorKeeps
  <2>. QED
    BY <1>2, <2>2, <2>3 DEF NetworkFails, LocalFails
<1>3. ASSUME NEW t \in Task, Kill(t) PROVE CacheIInv'
  <2>1. /\ calls[t] # <<>> /\ calls' = [calls EXCEPT ![t] = <<>>]
        /\ outcome' \in [Task -> {"none", "registered", "failed"}]
        /\ quiet' = quiet /\ UNCHANGED <<dir, whole, cached>>
    BY <1>3 DEF Kill, CacheIInv, CacheTypeInv
  <2>. QED
    BY <2>1, RejectKeeps DEF CacheIInv, CacheTypeInv
<1>4. ASSUME Purge PROVE CacheIInv'
  <2>1. /\ dir' = [u \in Package |-> Absent] /\ whole' = {} /\ quiet' = quiet \ Active
        /\ calls' = calls /\ outcome' = outcome /\ cached' = cached
    BY <1>4 DEF Purge
  <2>2. CacheTypeInv' /\ Active' = Active
    BY <2>1 DEF CacheIInv, CacheTypeInv, Active
  <2>3. Lone' /\ quiet' \cap Active' = {}
    BY <2>1, <2>2 DEF CacheIInv, Lone
  <2>. QED
    BY <2>2, <2>3 DEF CacheIInv
<1>5. ASSUME UNCHANGED cacheVars PROVE CacheIInv'
  <2>1. CacheTypeInv' /\ Active' = Active /\ Lone'
    BY <1>5 DEF cacheVars, CacheIInv, CacheTypeInv, Active, Lone
  <2>2. ASSUME NEW t \in quiet \cap Active, Kept(t) PROVE Kept(t)'
    <3>1. InPlace(t) => InPlace(t)'
      BY <1>5 DEF cacheVars, InPlace, At, Target, Importable, Installable, Ready
    <3>2. Innermost(t) => Innermost(t)'
      BY <1>5 DEF cacheVars, Innermost, At, Target, Wedged, Settled
    <3>3. Waiting(t) => Waiting(t)'
      BY <1>5 DEF cacheVars, Waiting, At, Target, Settled
    <3>4. Nested(t) => Nested(t)'
      BY <1>5 DEF cacheVars, Nested
    <3>5. Supplied(t) => Supplied(t)'
      BY <1>5 DEF cacheVars, Supplied, At, Ready, Obtained
    <3>6. Wedged' = Wedged /\ cached' = cached
      BY <1>5 DEF cacheVars, Wedged
    <3>. QED
      BY <2>2, <3>1, <3>2, <3>3, <3>4, <3>5, <3>6 DEF Kept
  <2>3. quiet' = quiet
    BY <1>5 DEF cacheVars
  <2>. QED
    BY <2>1, <2>2, <2>3 DEF CacheIInv, Kept
<1>. QED
  BY <1>1, <1>2, <1>3, <1>4, <1>5, RegisterRemoteStep, CheckExistsStep, InstallStep, ImportStep,
     DownloadStep, CleanStep, ExtractJsonStep, ExtractRestStep, LoadJsonStep, SaveJsonStep DEF CacheNext

-----------------------------------------------------------------------------

(* In every reachable state the directories a task has been alone with are *)
(* as its calls left them, innermost first.                                *)
THEOREM CacheInvariant == CacheSpec => []CacheIInv
BY CacheStart, CacheStep, PTL DEF CacheSpec

-----------------------------------------------------------------------------
(* Archives. *)

LEMMA TwoIsIn == \A n \in Nat : n # 0 /\ n # 1 => 2 \in 1..n
  OBVIOUS

LEMMA ActorsArchive ==
    ASSUME CacheIInv, ArchiveInv, NEW t \in Task, calls[t] # <<>>, quiet' \subseteq quiet,
           \A s \in Task \ {t} : calls'[s] = calls[s], DOMAIN tar' = DOMAIN tar,
           t \in quiet' /\ calls'[t] # <<>> =>
               /\ calls'[t][1].at = "write" => t \in sole'
               /\ calls'[t][1].at \in {"clean", "extract"} =>
                     tar'[Archive[calls'[t][1].package]] # "none"
    PROVE  ArchiveInv'
<1>1. ASSUME NEW s \in quiet' \cap Active' PROVE s = t
  BY <1>1 DEF CacheIInv, Lone, Active
<1>2. ASSUME NEW s \in quiet' \cap Active'
      PROVE  /\ At(s, {"write"})' => s \in sole'
             /\ At(s, {"clean", "extract"})' => tar'[Archive[Target(s)']] # "none"
  BY <1>1, <1>2 DEF At, Target
<1>. QED
  BY <1>2 DEF ArchiveInv

LEMMA ProceedsTo ==
    ASSUME CacheTypeInv, NEW t \in Task, calls[t] # <<>>, NEW stage \in Stage, Proceed(t, stage)
    PROVE  /\ calls'[t] # <<>> /\ calls'[t][1].at = stage /\ calls'[t][1].package = Target(t)
           /\ \A s \in Task \ {t} : calls'[s] = calls[s]
<1>. PICK f \in Frame :
        /\ f.package = Target(t) /\ f.at = stage /\ f.todo = calls[t][1].todo
        /\ calls' = [calls EXCEPT ![t] = <<f>> \o Tail(calls[t])]
        /\ outcome' = outcome
  BY ProceedForm
<1>. QED
  BY Moves

(* Steps that end a call, or lead away from the archive. *)
LEMMA LeavesArchive ==
    ASSUME CacheIInv, ArchiveInv, NEW t \in Task, calls[t] # <<>>, quiet' \subseteq quiet,
           UNCHANGED tar,
           \/ Reject(t) \/ Return(t)
           \/ t \notin quiet' /\ Proceed(t, "clean")
           \/ \E stage \in Stage \ {"write", "clean", "extract"} : Proceed(t, stage)
    PROVE  ArchiveInv'
<1>1. CacheTypeInv /\ calls \in [Task -> Seq(Frame)]
  BY DEF CacheIInv, CacheTypeInv
<1>2. CASE Reject(t)
  <2>1. calls'[t] = <<>> /\ \A s \in Task \ {t} : calls'[s] = calls[s]
    BY <1>1, <1>2 DEF Reject
  <2>. QED
    BY <2>1, ActorsArchive
<1>3. CASE Return(t)
  <2>1. calls'[t] = Tail(calls[t]) /\ \A s \in Task \ {t} : calls'[s] = calls[s]
    BY <1>1, <1>3 DEF Return
  <2>2. ASSUME t \in quiet', calls'[t] # <<>> PROVE calls'[t][1].at = "deps"
    <3>1. Waiting(t)
      BY <2>2, KeptNow DEF Kept
    <3>. PICK s \in Seq(Frame) : s = calls[t] /\ s # <<>>
      BY <1>1
    <3>2. Len(s) \in Nat \ {0, 1} /\ DOMAIN s = 1..Len(s) /\ Tail(s)[1] = s[2]
      BY <2>1, <2>2, FirstDropped
    <3>3. 2 \in DOMAIN s \ {1}
      <4>1. Len(s) \in Nat /\ Len(s) # 0 /\ Len(s) # 1
        BY <3>2
      <4>2. 2 \in 1..Len(s)
        BY <4>1, TwoIsIn
      <4>3. 2 \in DOMAIN s /\ 2 # 1
        BY <3>2, <4>2
      <4>. QED
        BY <4>3
    <3>. QED
      BY <2>1, <3>1, <3>2, <3>3 DEF Waiting
  <2>. QED
    BY <2>1, <2>2, ActorsArchive
<1>4. CASE t \notin quiet' /\ Proceed(t, "clean")
  <2>1. "clean" \in Stage
    BY DEF Stage
  <2>. QED
    BY <1>1, <1>4, <2>1, ProceedsTo, ActorsArchive
<1>5. ASSUME NEW stage \in Stage \ {"write", "clean", "extract"}, Proceed(t, stage)
      PROVE  ArchiveInv'
  BY <1>1, <1>5, ProceedsTo, ActorsArchive
<1>. QED
  BY <1>2, <1>3, <1>4, <1>5

(* Steps that lead to the archive. *)
LEMMA ReachesArchive ==
    ASSUME CacheIInv, ArchiveInv, NEW t \in Task,
           Download(t) \/ Receive(t) \/ Received(t) \/ Clean(t)
    PROVE  ArchiveInv'
<1>1. /\ calls[t] # <<>> /\ quiet' = quiet /\ CacheTypeInv
      /\ {"open", "write", "clean", "extract"} \subseteq Stage
  BY DEF Download, Receive, Received, Clean, At, CacheIInv, Stage
<1>. PICK u \in Package : u = Target(t)
  BY <1>1, FrameForm
<1>2. Archive[u] \in DOMAIN tar
  BY DEF ArchiveInv
<1>3. CASE Download(t)
  <2>1. tar' = tar /\ (Proceed(t, "open") \/ (tar[Archive[u]] # "none" /\ Proceed(t, "clean")))
    BY <1>3 DEF Download, archives
  <2>. QED
    BY <1>1, <2>1, ProceedsTo, ActorsArchive
<1>4. CASE Receive(t)
  <2>1. \/ /\ tar' = [tar EXCEPT ![Archive[u]] = "partial"] /\ t \in sole'
           /\ Proceed(t, "write")
        \/ tar' = tar /\ tar[Archive[u]] # "none" /\ Proceed(t, "clean")
    BY <1>4 DEF Receive, archives
  <2>. QED
    BY <1>1, <2>1, ProceedsTo, ActorsArchive
<1>5. CASE Received(t)
  <2>1. /\ tar' = IF t \in sole THEN [tar EXCEPT ![Archive[u]] = "whole"] ELSE tar
        /\ Proceed(t, "clean") /\ At(t, {"write"})
    BY <1>5 DEF Received
  <2>2. t \in quiet => t \in sole
    BY <1>1, <2>1 DEF ArchiveInv, Active
  <2>3. (t \in quiet => tar'[Archive[u]] = "whole") /\ DOMAIN tar' = DOMAIN tar
    BY <1>2, <2>1, <2>2
  <2>. QED
    BY <1>1, <2>1, <2>3, ProceedsTo, ActorsArchive
<1>6. CASE Clean(t)
  <2>1. tar' = tar /\ (Reject(t) \/ (tar[Archive[u]] # "none" /\ Proceed(t, "extract")))
    BY <1>6 DEF Clean, archives
  <2>2. CASE Reject(t)
    BY <1>1, <2>1, <2>2, LeavesArchive
  <2>3. CASE tar[Archive[u]] # "none" /\ Proceed(t, "extract")
    BY <1>1, <2>1, <2>3, ProceedsTo, ActorsArchive
  <2>. QED
    BY <2>1, <2>2, <2>3
<1>. QED
  BY <1>3, <1>4, <1>5, <1>6

LEMMA ArchiveStep == CacheIInv /\ ArchiveInv /\ [CacheNext]_cacheVars => ArchiveInv'
<1>. SUFFICES ASSUME CacheIInv, ArchiveInv, [CacheNext]_cacheVars PROVE ArchiveInv'
  OBVIOUS
<1>. DEFINE Away == Stage \ {"write", "clean", "extract"}
<1>1. {"check", "try", "tryImport", "fetch", "extractRest", "load", "save", "deps", "final",
       "finalImport"} \subseteq Away
  BY DEF Stage
<1>. HIDE DEF Away
<1>2. ASSUME UNCHANGED cacheVars PROVE ArchiveInv'
  BY <1>2 DEF cacheVars, ArchiveInv, Active, At, Target
<1>3. ASSUME Purge PROVE ArchiveInv'
  <2>1. /\ quiet' \cap Active' = {} /\ tar' = [a \in DOMAIN tar |-> "none"]
    BY <1>3 DEF Purge, Active
  <2>2. DOMAIN tar' = DOMAIN tar
    BY <2>1
  <2>. QED
    BY <2>1, <2>2 DEF ArchiveInv
<1>4. ASSUME NEW t \in Task, NEW u \in Wanted, RegisterRemote(t, u) PROVE ArchiveInv'
  <2>1. /\ calls' = [calls EXCEPT ![t] = <<Call(u, "check", <<>>)>>] /\ tar' = tar
        /\ quiet' \subseteq {t} /\ calls \in [Task -> Seq(Frame)]
    BY <1>4 DEF RegisterRemote, archives, CacheIInv, CacheTypeInv
  <2>2. calls'[t][1].at = "check"
    BY <2>1 DEF Call
  <2>3. ~At(t, {"write"})' /\ ~At(t, {"clean", "extract"})'
    BY <2>2 DEF At
  <2>. QED
    BY <2>1, <2>3 DEF ArchiveInv
<1>5. ASSUME NEW t \in Task, CheckExists(t) \/ Install(t) \/ Import(t) PROVE ArchiveInv'
  <2>1. /\ calls[t] # <<>> /\ tar' = tar /\ quiet' = quiet
        /\ \/ Reject(t) \/ Return(t) \/ Proceed(t, "fetch") \/ Proceed(t, "try")
           \/ Proceed(t, "tryImport") \/ Proceed(t, "finalImport")
    BY <1>5 DEF CheckExists, Install, Import, LocalFails, At, archives
  <2>. QED
    BY <1>1, <2>1, LeavesArchive DEF Away
<1>6. ASSUME NEW t \in Task, ExtractJson(t) \/ ExtractRest(t) \/ SaveJson(t) PROVE ArchiveInv'
  <2>1. /\ calls[t] # <<>> /\ tar' = tar /\ quiet' = quiet
        /\ \/ Reject(t) \/ Proceed(t, "extractRest") \/ Proceed(t, "load") \/ Proceed(t, "deps")
    BY <1>6 DEF ExtractJson, ExtractRest, SaveJson, At, archives
  <2>. QED
    BY <1>1, <2>1, LeavesArchive DEF Away
<1>7. ASSUME NEW t \in Task, LoadJson(t) PROVE ArchiveInv'
  <2>1. calls[t] # <<>> /\ tar' = tar /\ quiet' = quiet /\ calls \in [Task -> Seq(Frame)]
    BY <1>7 DEF LoadJson, At, archives, CacheIInv, CacheTypeInv
  <2>2. CASE Reject(t)
    BY <2>1, <2>2, LeavesArchive
  <2>3. CASE ~Reject(t)
    <3>1. PICK f : f.at = "save" /\ calls' = [calls EXCEPT ![t] = <<f>> \o Tail(calls[t])]
      BY <1>7, <2>3 DEF LoadJson, Call
    <3>2. calls'[t] = <<f>> \o Tail(calls[t]) /\ \A s \in Task \ {t} : calls'[s] = calls[s]
      BY <2>1, <3>1
    <3>3. calls'[t][1] = f
      BY <2>1, <3>2
    <3>. QED
      BY <2>1, <3>1, <3>2, <3>3, ActorsArchive
  <2>. QED
    BY <2>2, <2>3
<1>8. ASSUME NEW t \in Task, NextDependency(t) PROVE ArchiveInv'
  <2>1. calls[t] # <<>> /\ tar' = tar /\ quiet' = quiet /\ calls \in [Task -> Seq(Frame)]
    BY <1>8 DEF NextDependency, At, archives, CacheIInv, CacheTypeInv
  <2>2. CASE Proceed(t, "final")
    BY <1>1, <2>1, <2>2, LeavesArchive DEF Away
  <2>3. CASE ~Proceed(t, "final")
    <3>1. PICK f, g : /\ f.at = "check"
                      /\ calls' = [calls EXCEPT ![t] = <<f, g>> \o Tail(calls[t])]
      BY <1>8, <2>3 DEF NextDependency, Call
    <3>2. calls'[t] = <<f, g>> \o Tail(calls[t]) /\ \A s \in Task \ {t} : calls'[s] = calls[s]
      BY <2>1, <3>1
    <3>3. calls'[t][1] = f
      BY <2>1, <3>2
    <3>. QED
      BY <2>1, <3>1, <3>2, <3>3, ActorsArchive
  <2>. QED
    BY <2>2, <2>3
<1>9. ASSUME NEW t \in Task, NetworkFails(t) PROVE ArchiveInv'
  <2>1. /\ calls[t] # <<>> /\ tar' = tar /\ quiet' = quiet \ {t}
        /\ Reject(t) \/ Proceed(t, "fetch") \/ Proceed(t, "clean")
    BY <1>9 DEF NetworkFails, LocalFails, At, archives
  <2>. QED
    BY <1>1, <2>1, LeavesArchive DEF Away
<1>10. ASSUME NEW t \in Task, Kill(t) PROVE ArchiveInv'
  <2>1. /\ calls[t] # <<>> /\ tar' = tar /\ quiet' = quiet
        /\ calls' = [calls EXCEPT ![t] = <<>>] /\ calls \in [Task -> Seq(Frame)]
    BY <1>10 DEF Kill, archives, CacheIInv, CacheTypeInv
  <2>2. calls'[t] = <<>> /\ \A s \in Task \ {t} : calls'[s] = calls[s]
    BY <2>1
  <2>. QED
    BY <2>1, <2>2, ActorsArchive
<1>. QED
  BY <1>2, <1>3, <1>4, <1>5, <1>6, <1>7, <1>8, <1>9, <1>10, ReachesArchive DEF CacheNext

(* A task that has been alone is the last to have created the archive it   *)
(* downloads, and what it extracts is there.                               *)
THEOREM ArchiveInvariant == CacheSpec => []ArchiveInv
<1>1. CacheInit => ArchiveInv
  <2>1. DOMAIN [a \in {Archive[u] : u \in Package} |-> "none"] = {Archive[u] : u \in Package}
    OBVIOUS
  <2>. QED
    BY <2>1 DEF CacheInit, ArchiveInv
<1>. QED
  BY <1>1, ArchiveStep, CacheInvariant, PTL DEF CacheSpec

-----------------------------------------------------------------------------

(* A task that finds all it needs, and that nobody disturbs, never removes *)
(* or downloads a package, for any packages and dependencies between them  *)
(* (ConfiguModule.registerRemote).                                         *)
THEOREM CachedStays == CacheSpec => []CachedIsNotFetched
<1>1. ASSUME CacheIInv, NEW t \in quiet \cap cached
      PROVE  ~At(t, Stage \ {"check", "try", "tryImport"})
  <2>1. CASE calls[t] = <<>>
    BY <2>1 DEF At
  <2>2. CASE calls[t] # <<>>
    <3>1. t \in Task
      BY <1>1 DEF CacheIInv, CacheTypeInv
    <3>2. InPlace(t)
      BY <1>1, <2>2, <3>1, KeptNow DEF Kept
    <3>. QED
      BY <3>2 DEF InPlace, At
  <2>. QED
    BY <2>1, <2>2
<1>2. CacheIInv => CachedIsNotFetched
  BY <1>1 DEF CachedIsNotFetched
<1>. QED
  BY <1>2, CacheInvariant, PTL

(* Only a step of its own ends a call. *)
LEMMA FailsItself ==
    ASSUME CacheIInv, [CacheNext]_cacheVars, NEW t \in quiet',
           outcome[t] = "none", outcome'[t] = "failed"
    PROVE  /\ t \in quiet /\ t \in Task /\ calls[t] # <<>>
           /\ \/ Install(t) \/ Import(t) \/ Clean(t) \/ ExtractJson(t) \/ ExtractRest(t)
              \/ LoadJson(t) \/ SaveJson(t)
<1>1. outcome \in [Task -> {"none", "registered", "failed"}] /\ quiet \subseteq Task
  BY DEF CacheIInv, CacheTypeInv
<1>2. ~UNCHANGED cacheVars /\ ~Purge
  BY DEF cacheVars, Purge
<1>. PICK s \in Task :
        \/ \E u \in Wanted : RegisterRemote(s, u)
        \/ CheckExists(s) \/ Install(s) \/ Import(s)
        \/ Download(s) \/ Receive(s) \/ Received(s) \/ Clean(s)
        \/ ExtractJson(s) \/ ExtractRest(s)
        \/ LoadJson(s) \/ SaveJson(s) \/ NextDependency(s)
        \/ NetworkFails(s)
        \/ Kill(s)
  BY <1>2, Zenon DEF CacheNext
<1>3. ASSUME NEW u PROVE ~RegisterRemote(s, u)
  <2>. SUFFICES ASSUME RegisterRemote(s, u) PROVE FALSE
    OBVIOUS
  <2>1. outcome' = [outcome EXCEPT ![s] = "none"]
    BY DEF RegisterRemote
  <2>. QED
    BY <1>1, <2>1
<1>4. /\ ~CheckExists(s) /\ ~Download(s) /\ ~Receive(s) /\ ~Received(s)
      /\ ~NextDependency(s) /\ ~Kill(s)
  BY DEF CheckExists, Download, Receive, Received, NextDependency, Kill, Proceed
<1>5. ~NetworkFails(s)
  <2>. SUFFICES ASSUME NetworkFails(s) PROVE FALSE
    OBVIOUS
  <2>1. quiet' = quiet \ {s} /\ outcome' \in {outcome, [outcome EXCEPT ![s] = "failed"]}
    BY DEF NetworkFails, LocalFails, Reject, Proceed
  <2>. QED
    BY <1>1, <2>1
<1>6. \/ Install(s) \/ Import(s) \/ Clean(s) \/ ExtractJson(s) \/ ExtractRest(s)
      \/ LoadJson(s) \/ SaveJson(s)
  BY <1>3, <1>4, <1>5, Zenon
<1>7. quiet' = quiet /\ calls[s] # <<>>
  BY <1>6 DEF Install, Import, Clean, ExtractJson, ExtractRest, LoadJson, SaveJson, At
<1>8. s = t
  <2>1. \A place : [outcome EXCEPT ![s] = place][t] = "failed" => s = t
    BY <1>1, <1>7
  <2>. QED
    BY <1>6, <2>1 DEF Install, Import, Clean, ExtractJson, ExtractRest, LoadJson, SaveJson,
       LocalFails, Reject, Return, Proceed
<1>. QED
  BY <1>6, <1>7, <1>8

(* Whatever crashed, failed and raced before, a task that nobody disturbs  *)
(* and whose network works registers its package, unless the SDK is wedged *)
(* or an archive it needs has been left truncated: the directories heal,   *)
(* the archives do not (ConfiguModule.registerRemote, preferOffline).      *)
THEOREM CacheHeals == CacheSpec => AloneRegisters
<1>1. ASSUME CacheIInv, ArchiveInv, [CacheNext]_cacheVars, NEW t \in quiet',
             outcome[t] = "none", outcome'[t] = "failed"
      PROVE  Wedged \/ Truncated(Target(t))
  <2>1. /\ t \in quiet /\ t \in Task /\ calls[t] # <<>>
        /\ \/ Install(t) \/ Import(t) \/ Clean(t) \/ ExtractJson(t) \/ ExtractRest(t)
           \/ LoadJson(t) \/ SaveJson(t)
    BY <1>1, FailsItself
  <2>2. Kept(t) /\ CacheTypeInv
    BY <1>1, <2>1, KeptNow DEF CacheIInv
  <2>. PICK u \in Package : u = Target(t)
    BY <2>1, <2>2, FrameForm
  <2>3. /\ outcome' # outcome /\ outcome' # [outcome EXCEPT ![t] = "registered"]
    BY <1>1, <2>1, <2>2 DEF CacheTypeInv
  <2>4. CASE Install(t)
    <3>1. At(t, {"final"}) /\ ~Installable(u)
      BY <2>3, <2>4 DEF Install, LocalFails, Proceed, Return, At
    <3>2. Settled(u)
      BY <2>2, <3>1 DEF Kept, Innermost, At
    <3>. QED
      BY <3>1, <3>2 DEF Settled, Installable
  <2>5. CASE Import(t)
    <3>1. At(t, {"finalImport"}) /\ ~Importable(u)
      BY <2>3, <2>5 DEF Import, LocalFails, Proceed, Return, At
    <3>2. Settled(u) /\ dir[u].installed /\ calls[t][1].todo = <<>>
      BY <2>2, <3>1 DEF Kept, Innermost, At
    <3>. SUFFICES ASSUME ~Wedged PROVE FALSE
      OBVIOUS
    <3>3. Supplied(t) /\ At(t, {"deps", "final", "finalImport"})
      BY <2>2, <3>1 DEF Kept, At
    <3>4. Obtained(calls[t][1]) = Elements(Deps[u])
      BY <3>2 DEF Obtained, Elements, Target
    <3>5. \A d \in Elements(Deps[u]) : \A x \in Needs[d] : Ready(x)
      BY <3>3, <3>4 DEF Supplied
    <3>6. Ready(u)
      BY <3>2 DEF Settled, Ready
    <3>7. \A x \in Needs[u] : Ready(x)
      BY <3>5, <3>6, NeedsForm
    <3>. QED
      BY <3>1, <3>7 DEF Importable
  <2>6. CASE Clean(t) \/ ExtractJson(t)
    <3>1. /\ At(t, {"clean", "extract"})
          /\ \/ tar[Archive[u]] = "none" \/ Truncated(u)
             \/ dir[u] = Absent /\ At(t, {"extract"})
      BY <2>3, <2>6 DEF Clean, ExtractJson, Proceed, At
    <3>2. tar[Archive[u]] # "none"
      BY <1>1, <2>1, <3>1 DEF ArchiveInv, Active
    <3>3. ~(dir[u] = Absent /\ At(t, {"extract"}))
      BY <1>1, <2>1, FetchFinds
    <3>. QED
      BY <3>1, <3>2, <3>3
  <2>7. CASE ExtractRest(t)
    <3>1. At(t, {"extractRest"}) /\ (dir[u] = Absent \/ Truncated(u))
      BY <2>3, <2>7 DEF ExtractRest, Proceed
    <3>. QED
      BY <1>1, <2>1, <3>1, FetchFinds
  <2>8. CASE LoadJson(t)
    <3>1. At(t, {"load"}) /\ (dir[u] = Absent \/ dir[u].json = "absent")
      BY <2>3, <2>8 DEF LoadJson
    <3>. QED
      BY <1>1, <2>1, <3>1, FetchFinds DEF At
  <2>9. CASE SaveJson(t)
    <3>1. dir[u] = Absent /\ At(t, {"save"})
      BY <2>3, <2>9 DEF SaveJson, Proceed
    <3>. QED
      BY <1>1, <2>1, <3>1, FetchFinds DEF At
  <2>. QED
    BY <2>1, <2>4, <2>5, <2>6, <2>7, <2>8, <2>9
<1>2. CacheIInv /\ ArchiveInv /\ [CacheNext]_cacheVars =>
        [\A t \in quiet' :
            outcome[t] = "none" /\ outcome'[t] = "failed" => Wedged \/ Truncated(Target(t))]_cacheVars
  BY <1>1
<1>. QED
  BY <1>2, CacheInvariant, ArchiveInvariant, PTL DEF CacheSpec, AloneRegisters

=============================================================================
