------------------------ MODULE WorkspaceRegistryProofs ------------------------
(***************************************************************************)
(* Theorems about WorkspaceRegistry, for any roots, databases, entries and *)
(* workspaces, any finite set of request handlers, and all bounds.         *)
(***************************************************************************)
EXTENDS WorkspaceRegistry, FiniteSetTheorems, TLAPS

\* A key is a root, or a root and a database.
LEMMA KeyFacts ==
    /\ Root \subseteq Key
    /\ \A r \in Root : RootOf(r) = r /\ DbOf(r) = Joined[config[r]]
    /\ \A r \in Root, db \in Db : /\ <<r, db>> \in Key /\ <<r, db>> \notin Root
                                  /\ RootOf(<<r, db>>) = r /\ DbOf(<<r, db>>) = db
    /\ \A k \in Key : /\ RootOf(k) \in Root /\ k # None
                      /\ k \notin Root => k[2] \in Db /\ k = <<RootOf(k), k[2]>> /\ DbOf(k) = k[2]
  BY RegistryAssumption DEF Key, RootOf, DbOf

\* What the configuration says stands while nobody edits it.
LEMMA RelativeStays == ASSUME UNCHANGED config PROVE RelativeConfig' <=> RelativeConfig
  BY DEF RelativeConfig

\* The fields of an entry whose eviction is put off, or whose timer is stopped.
LEMMA Rescheduled ==
    ASSUME NEW rec \in EntryRecord
    PROVE  /\ Unscheduled(rec) \in EntryRecord
           /\ Unscheduled(rec).state = rec.state /\ Unscheduled(rec).restoring = rec.restoring
           /\ Unscheduled(rec).explicit = rec.explicit /\ Unscheduled(rec).leases = rec.leases
           /\ Unscheduled(rec).removing = rec.removing /\ Unscheduled(rec).timer = FALSE
           /\ Unscheduled(rec).epoch = rec.epoch + 1
           /\ Scheduled(rec) \in EntryRecord
           /\ Scheduled(rec).state = rec.state /\ Scheduled(rec).restoring = rec.restoring
           /\ Scheduled(rec).explicit = rec.explicit /\ Scheduled(rec).leases = rec.leases
           /\ Scheduled(rec).removing = rec.removing
           /\ IF rec.explicit \/ rec.leases > 0 \/ rec.removing
              THEN Scheduled(rec).epoch = rec.epoch /\ Scheduled(rec).timer = rec.timer
              ELSE Scheduled(rec).epoch = rec.epoch + 1 /\ Scheduled(rec).timer = TRUE
  <1>1. PICK n \in Nat : n = rec.epoch + 1
    BY DEF EntryRecord
  <1>2. [rec EXCEPT !.epoch = n, !.timer = FALSE] \in EntryRecord
    BY DEF EntryRecord
  <1>3. [rec EXCEPT !.epoch = n, !.timer = TRUE] \in EntryRecord
    BY DEF EntryRecord
  <1>4. CASE rec.explicit \/ rec.leases > 0 \/ rec.removing
    BY <1>1, <1>2, <1>4 DEF Unscheduled, Scheduled, EntryRecord
  <1>5. CASE ~(rec.explicit \/ rec.leases > 0 \/ rec.removing)
    BY <1>1, <1>2, <1>3, <1>5 DEF Unscheduled, Scheduled, EntryRecord
  <1>6. QED
    BY <1>4, <1>5

\* An operation works on the entry in the table, or on one nothing refers to.
LEMMA EntryFound ==
    ASSUME RegistryTypeOK, NEW k \in Key, NEW e \in Entry, EntryAt(k, e)
    PROVE  \/ entries[k] = e
           \/ /\ entries[k] = None /\ entry[e] = NoEntry
              /\ \A l \in Key : entries[l] # e
              /\ \A r \in Root : restore[r].entry # e
              /\ \A c \in Client : client[c].entry # e
  <1>1. CASE entries[k] # None
    BY <1>1 DEF EntryAt
  <1>2. CASE entries[k] = None
    <2>1. FreshEntries # {} /\ e = CHOOSE y \in FreshEntries : TRUE
      BY <1>2 DEF EntryAt, New
    <2>2. e \in FreshEntries
      BY <2>1
    <2>3. QED
      BY <1>2, <2>2 DEF FreshEntries
  <1>3. QED
    BY <1>1, <1>2

\* A workspace that is opened was never open.
LEMMA HandleOpened ==
    ASSUME NEW k \in Key, NEW h \in Handle, Opened(h, k)
    PROVE  /\ handle[h].life = "none"
           /\ handle' = [handle EXCEPT ![h] = [life |-> "open", key |-> k, db |-> DbOf(k)]]
  <1>1. h \in FreshHandles
    BY DEF Opened, New
  <1>2. QED
    BY <1>1 DEF Opened, FreshHandles, DbOf

LEMMA StateFound ==
    ASSUME NEW e \in Entry, NEW k \in Key, NEW h \in Handle, StateOf(e, k, h)
    PROVE  \/ entry[e].state = h /\ handle' = handle
           \/ /\ entry[e].state = None /\ handle[h].life = "none"
              /\ handle' = [handle EXCEPT ![h] = [life |-> "open", key |-> k, db |-> DbOf(k)]]
  BY HandleOpened DEF StateOf

-------------------------------------------------------------------------------
(* What steps do to the tables, and what each does to the parts of the invariant. *)

\* An entry whose timer runs may be evicted.
Evictable(rec) == ~rec.explicit /\ rec.leases = 0 /\ ~rec.removing

\* A change of an entry's fields that goes with its timer.
Retimed(e, rec) ==
    /\ rec \in EntryRecord
    /\ Becomes(e, rec) /\ Touch(e)
    /\ rec.epoch > entry[e].epoch \/ (rec.epoch = entry[e].epoch /\ ~rec.timer /\ ~entry[e].timer)
    /\ rec.timer => Evictable(rec)
    /\ rec.explicit => ~rec.removing
    /\ rec.restoring = entry[e].restoring

\* What an entry in the table is there for.
Wanted(rec) == /\ rec.removing => rec.leases > 0
               /\ rec.explicit \/ rec.leases > 0 \/ rec.timer

\* An operation finds or makes the entry at a key, and opens its workspace if it has
\* none.
Puts(k, e, h, rec) ==
    /\ k \in Key /\ e \in Entry /\ h \in Handle
    /\ registry = "open" /\ EntryAt(k, e) /\ ~entry[e].restoring
    /\ StateOf(e, k, h) /\ entries' = [entries EXCEPT ![k] = e]
    /\ Retimed(e, rec) /\ Wanted(rec) /\ rec.state = h
    /\ UNCHANGED <<restore, config, registry, draining>>

\* The entry at a key leaves the table, and its workspace is closed.
Takes(k, e, rec) ==
    /\ k \in Key /\ e \in Entry /\ entries[k] = e
    /\ Closing(entry[e].state, "closing") /\ entries' = [entries EXCEPT ![k] = None]
    /\ entry' = [entry EXCEPT ![e] = rec] /\ rec \in EntryRecord
    /\ rec.state = entry[e].state /\ rec.restoring = entry[e].restoring
    /\ rec.leases <= entry[e].leases
    /\ UNCHANGED <<restore, config, registry, draining>>

\* The fields of the entry at a key change, not its workspace.
TurnsEntry(k, e, rec) ==
    /\ k \in Key /\ e \in Entry /\ entries[k] = e
    /\ Retimed(e, rec) /\ Wanted(rec) /\ rec.state = entry[e].state
    /\ UNCHANGED <<entries, handle, restore, config, registry, draining>>

\* Timers: a change of an entry that leaves the others alone.
LEMMA RetimedTimers ==
    ASSUME RegistryTypeOK, TimerOK, NEW e \in Entry, NEW rec, Retimed(e, rec),
           \A f \in Entry : InTable(f)' => InTable(f) \/ f = e,
           InTable(e)' => Wanted(rec)
    PROVE  TimerOK' /\ due' \subseteq Entry \X Nat /\ stale' \subseteq due'
                    /\ entry' \in [Entry -> EntryRecord]
  <1>1. entry' = [entry EXCEPT ![e] = rec] /\ rec \in EntryRecord /\ rec.epoch \in Nat
    BY DEF Retimed, Becomes, EntryRecord
  <1>2. entry \in [Entry -> EntryRecord] /\ due \subseteq Entry \X Nat /\ stale \subseteq due
    BY DEF RegistryTypeOK
  <1>3. \A f \in Entry : entry[f].epoch \in Nat /\ entry[f].leases \in Nat
    BY <1>2 DEF EntryRecord
  <1>4. PICK stopped \in SUBSET {<<e, entry[e].epoch>>} :
           due' = IF rec.epoch = entry[e].epoch THEN due
                  ELSE (due \ stopped) \cup (IF rec.timer THEN {<<e, rec.epoch>>} ELSE {})
    BY DEF Retimed, Becomes
  <1>5. due' \subseteq Entry \X Nat /\ stale' \subseteq due'
    BY <1>1, <1>2, <1>4 DEF Retimed, Touch
  <1>6. entry'[e] = rec /\ \A f \in Entry \ {e} : entry'[f] = entry[f]
    BY <1>1, <1>2
  <1>7. entry' \in [Entry -> EntryRecord]
    BY <1>1, <1>2
  <1>8. ASSUME NEW x \in due, x[1] = e PROVE x[2] <= entry[e].epoch /\ (~entry[e].timer => x[2] < entry[e].epoch)
    <2>1. x[2] \in Nat /\ x[2] <= entry[e].epoch /\ (x[2] = entry[e].epoch => entry[e].timer)
      BY <1>2, <1>8 DEF TimerOK
    <2>2. QED
      BY <2>1, <1>3
  <1>9. ASSUME NEW f \in Entry
        PROVE  /\ entry'[f].timer => ~entry'[f].explicit /\ entry'[f].leases = 0 /\ ~entry'[f].removing
               /\ entry'[f].explicit => ~entry'[f].removing
               /\ InTable(f)' => /\ entry'[f].removing => entry'[f].leases > 0
                                 /\ \/ entry'[f].explicit \/ entry'[f].leases > 0
                                    \/ entry'[f].timer /\ <<f, entry'[f].epoch>> \in due'
    <2>1. CASE f = e
      BY <2>1, <1>4, <1>6, <1>3 DEF Retimed, Wanted, Evictable
    <2>2. CASE f # e
      <3>1. InTable(f)' => InTable(f)
        BY <2>2
      <3>2. \A n : <<f, n>> \in due => <<f, n>> \in due'
        BY <2>2, <1>4
      <3>3. QED
        BY <2>2, <3>1, <3>2, <1>6 DEF TimerOK
    <2>3. QED
      BY <2>1, <2>2
  <1>10. ASSUME NEW x \in due'
         PROVE  x[2] <= entry'[x[1]].epoch /\ (x[2] = entry'[x[1]].epoch => entry'[x[1]].timer)
    <2>1. CASE x \in due /\ x[1] # e
      BY <2>1, <1>2, <1>6 DEF TimerOK
    <2>2. CASE x \in due /\ x[1] = e
      BY <2>2, <1>2, <1>3, <1>6, <1>8, <1>1 DEF Retimed
    <2>3. CASE x \notin due
      <3>1. x = <<e, rec.epoch>> /\ rec.timer
        BY <2>3, <1>4
      <3>2. QED
        BY <3>1, <1>1, <1>6
    <2>4. QED
      BY <2>1, <2>2, <2>3
  <1>11. ASSUME NEW x \in stale' PROVE x[2] < entry'[x[1]].epoch
    <2>1. x \in due' /\ (x \in stale \/ (x \in due /\ x[1] = e))
      BY DEF Retimed, Touch
    <2>2. CASE x[1] = e
      BY <2>1, <2>2, <1>2, <1>3, <1>6, <1>8, <1>1 DEF Retimed
    <2>3. CASE x[1] # e
      BY <2>1, <2>3, <1>2, <1>6 DEF TimerOK
    <2>4. QED
      BY <2>2, <2>3
  <1>12. QED
    BY <1>5, <1>7, <1>9, <1>10, <1>11 DEF TimerOK

\* The keys of the table after an operation has put an entry there.
LEMMA PutsTables ==
    ASSUME RegistryTypeOK, TableOK, RestoreOK, NEW k, NEW e, NEW h, NEW rec, Puts(k, e, h, rec)
    PROVE  /\ entries' \in [Key -> Entry \cup {None}] /\ handle' \in [Handle -> HandleRecord]
           /\ entries'[k] = e /\ \A l \in Key \ {k} : entries'[l] = entries[l]
           /\ \A l \in Key : entries[l] = e => l = k
           /\ entries[k] \in {None, e}
           /\ \A f \in Entry : InTable(f)' => InTable(f) \/ f = e
           /\ \A f \in Entry \ {e} : InTable(f)' <=> InTable(f)
           /\ \A l, m \in Key : entries'[l] # None /\ entries'[l] = entries'[m] => l = m
           /\ entries[k] = None => /\ entry[e] = NoEntry
                                   /\ \A r \in Root : restore[r].entry # e
                                   /\ \A c \in Client : client[c].entry # e
           /\ \A r \in Root : BeingRestored(r) => restore[r].entry # e
  <1>1. entries \in [Key -> Entry \cup {None}] /\ k \in Key /\ e \in Entry /\ h \in Handle
        /\ entries' = [entries EXCEPT ![k] = e]
    BY DEF RegistryTypeOK, Puts
  <1>2. \/ entries[k] = e
        \/ /\ entries[k] = None /\ entry[e] = NoEntry
           /\ \A l \in Key : entries[l] # e
           /\ \A r \in Root : restore[r].entry # e
           /\ \A c \in Client : client[c].entry # e
    BY <1>1, EntryFound DEF Puts
  <1>3. e # None
    BY <1>1, RegistryAssumption
  <1>4. \A l \in Key : entries[l] = e => l = k
    BY <1>1, <1>2, <1>3 DEF TableOK
  <1>5. handle' \in [Handle -> HandleRecord]
    <2>1. handle \in [Handle -> HandleRecord] /\ (k \in Root => config[k] \in Db)
      BY DEF RegistryTypeOK
    <2>2. DbOf(k) \in Db
      BY <1>1, <2>1, KeyFacts, RegistryAssumption DEF DbOf
    <2>3. [life |-> "open", key |-> k, db |-> DbOf(k)] \in HandleRecord
      BY <1>1, <2>2 DEF HandleRecord
    <2>4. QED
      BY <1>1, <2>1, <2>3, StateFound DEF Puts
  <1>6. entries'[k] = e /\ \A l \in Key \ {k} : entries'[l] = entries[l]
    BY <1>1
  <1>7. \A f \in Entry \ {e} : InTable(f)' <=> InTable(f)
    BY <1>1, <1>2, <1>6, RegistryAssumption DEF InTable
  <1>8. \A l, m \in Key : entries'[l] # None /\ entries'[l] = entries'[m] => l = m
    BY <1>1, <1>4, <1>6 DEF TableOK
  <1>9. \A r \in Root : BeingRestored(r) => restore[r].entry # e
    BY <1>1 DEF Puts, RestoreOK
  <1>10. QED
    BY <1>1, <1>2, <1>3, <1>4, <1>5, <1>6, <1>7, <1>8, <1>9

\* Every open workspace keeps its one place when an operation opens one.
LEMMA PutsPlaces ==
    ASSUME RegistryTypeOK, TableOK, RestoreOK, PlacesOK, NEW k, NEW e, NEW h, NEW rec,
           Puts(k, e, h, rec)
    PROVE  /\ PlacesOK' /\ WorkspaceAt(k)' = h /\ handle'[h].life = "open"
           /\ \A l \in Key \ {k} : WorkspaceAt(l)' = WorkspaceAt(l)
           /\ WorkspaceAt(k) = entry[e].state
  <1>1. k \in Key /\ e \in Entry /\ h \in Handle /\ h # None /\ e # None
        /\ rec.state = h /\ UNCHANGED <<restore, draining>> /\ registry = "open"
    BY RegistryAssumption DEF Puts
  <1>2. /\ entry' = [entry EXCEPT ![e] = rec] /\ entry \in [Entry -> EntryRecord]
        /\ entries \in [Key -> Entry \cup {None}] /\ handle \in [Handle -> HandleRecord]
    BY DEF Puts, Retimed, Becomes, RegistryTypeOK
  <1>3. WorkspaceAt(k)' = h
    BY <1>1, <1>2, PutsTables DEF WorkspaceAt
  <1>4. WorkspaceAt(k) = entry[e].state
    BY <1>1, <1>2, PutsTables DEF WorkspaceAt, NoEntry
  <1>5. ASSUME NEW l \in Key \ {k} PROVE WorkspaceAt(l)' = WorkspaceAt(l)
    <2>1. entries'[l] = entries[l] /\ entries[l] # e
      BY <1>5, PutsTables
    <2>2. QED
      BY <1>2, <2>1 DEF WorkspaceAt
  <1>6. draining = {}
    BY <1>1 DEF TableOK
  <1>7. \/ entry[e].state = h /\ handle' = handle
        \/ /\ entry[e].state = None /\ handle[h].life = "none"
           /\ handle' = [handle EXCEPT ![h] = [life |-> "open", key |-> k, db |-> DbOf(k)]]
    BY <1>1, StateFound DEF Puts
  <1>10. \A g \in Handle : handle[g].life = "open" <=> HasPlace(g)
    BY DEF PlacesOK
  <1>8. CASE entry[e].state = h /\ handle' = handle
    <2>1. \A l \in Key : WorkspaceAt(l)' = WorkspaceAt(l)
      BY <1>3, <1>4, <1>5, <1>8
    <2>2. handle[h].life = "open"
      BY <1>1, <1>4, <1>8 DEF PlacesOK, HasPlace
    <2>3. QED
      BY <1>1, <1>3, <1>4, <1>5, <1>8, <2>1, <2>2 DEF PlacesOK, HasPlace
  <1>9. CASE /\ entry[e].state = None /\ handle[h].life = "none"
             /\ handle' = [handle EXCEPT ![h] = [life |-> "open", key |-> k, db |-> DbOf(k)]]
    <2>1. /\ handle'[h].life = "open"
          /\ \A g \in Handle \ {h} : handle'[g] = handle[g]
      BY <1>1, <1>2, <1>9
    <2>2. /\ \A l \in Key : WorkspaceAt(l) # h
          /\ \A r \in Root : restore[r].state # h
      BY <1>1, <1>9 DEF PlacesOK, HasPlace
    <2>3. \A l, m \in Key : WorkspaceAt(l)' # None /\ WorkspaceAt(l)' = WorkspaceAt(m)' => l = m
      BY <1>3, <1>5, <2>2 DEF PlacesOK
    <2>4. \A r \in Root : restore[r].state # None => \A l \in Key : WorkspaceAt(l)' # restore[r].state
      BY <1>3, <1>5, <2>2 DEF PlacesOK
    <2>5. ASSUME NEW g \in Handle PROVE handle'[g].life = "open" <=> HasPlace(g)'
      <3>1. CASE g = h
        BY <1>1, <1>3, <2>1, <3>1 DEF HasPlace
      <3>2. CASE g # h
        <4>1. g # None /\ g # WorkspaceAt(k)
          BY <1>4, <1>9, RegistryAssumption
        <4>2. \A l \in Key : WorkspaceAt(l)' = g <=> WorkspaceAt(l) = g
          BY <1>3, <1>5, <3>2, <4>1
        <4>3. HasPlace(g)' <=> HasPlace(g)
          BY <1>1, <4>2 DEF HasPlace
        <4>4. QED
          BY <1>10, <2>1, <3>2, <4>3
      <3>3. QED
        BY <3>1, <3>2
    <2>6. \A g \in Handle : /\ handle'[g].life # "twice"
                            /\ handle'[g].life # "none" => handle'[g].key # None
      BY <1>1, <1>2, <1>9, <2>1, RegistryAssumption DEF PlacesOK
    <2>7. PlacesOK'
      <3>1. \A g \in Handle : handle'[g].life # "twice"
        BY <2>6
      <3>2. \A g \in Handle : handle'[g].life # "none" => handle'[g].key # None
        BY <2>6
      <3>3. \A q, r \in Root : restore[r].state # None /\ restore[r].state = restore[q].state => r = q
        BY DEF PlacesOK
      <3>4. \A r \in Root : restore[r].state # None => restore[r].state \notin draining
        BY DEF PlacesOK
      <3>5. QED
        BY <1>1, <2>3, <2>4, <2>5, <3>1, <3>2, <3>3, <3>4 DEF PlacesOK
    <2>8. QED
      BY <1>3, <1>4, <1>5, <2>1, <2>7
  <1>11. QED
    BY <1>7, <1>8, <1>9

LEMMA PutsRestores ==
    ASSUME RegistryTypeOK, TableOK, RestoreOK, NEW k, NEW e, NEW h, NEW rec, Puts(k, e, h, rec)
    PROVE  RestoreOK'
  <1>1. /\ k \in Key /\ e \in Entry /\ h \in Handle /\ h # None /\ restore' = restore
        /\ entry' = [entry EXCEPT ![e] = rec] /\ entry \in [Entry -> EntryRecord]
        /\ entries \in [Key -> Entry \cup {None}] /\ restore \in [Root -> RestoreRecord]
        /\ rec.state = h /\ ~rec.restoring
    BY RegistryAssumption DEF Puts, Retimed, Becomes, RegistryTypeOK
  <1>2. entry'[e] = rec /\ \A f \in Entry \ {e} : entry'[f] = entry[f]
    BY <1>1
  <1>3. /\ entries'[k] = e /\ \A l \in Key \ {k} : entries'[l] = entries[l]
        /\ \A r \in Root : BeingRestored(r) => restore[r].entry # e
    BY PutsTables
  <1>4. \A r \in Root : BeingRestored(r)' <=> BeingRestored(r)
    BY <1>1 DEF BeingRestored
  <1>5. ASSUME NEW r \in Root, BeingRestored(r)
        PROVE  LET f == restore[r].entry
               IN /\ entry'[f].restoring /\ entry'[f].state = None /\ entry'[f].leases = 0
                  /\ \A l \in Key : entries'[l] = f => l = r
    <2>1. restore[r].entry \in Entry \ {e}
      BY <1>1, <1>3, <1>5 DEF RestoreOK, RestoreRecord
    <2>2. QED
      BY <1>2, <1>3, <1>5, <2>1 DEF RestoreOK
  <1>6. ASSUME NEW r \in Root, entries'[r] # None, restore[r].stage # "done",
               entry'[entries'[r]].leases > 0
        PROVE  entry'[entries'[r]].state # None
    <2>1. CASE entries'[r] = e
      BY <1>1, <1>2, <2>1
    <2>2. CASE entries'[r] # e
      <3>1. r \in Key /\ r # k /\ entries'[r] = entries[r] /\ entries[r] \in Entry \ {e}
        BY <1>1, <1>3, <1>6, <2>2, KeyFacts
      <3>2. QED
        BY <1>2, <1>6, <3>1 DEF RestoreOK
    <2>3. QED
      BY <2>1, <2>2
  <1>7. \A f \in Entry : entry'[f].restoring => \E r \in Root : restore[r].entry = f
    BY <1>1, <1>2 DEF RestoreOK
  <1>8. QED
    BY <1>1, <1>4, <1>5, <1>6, <1>7 DEF RestoreOK

LEMMA PutsClients ==
    ASSUME RegistryTypeOK, TableOK, RestoreOK, NEW k, NEW e, NEW h, NEW rec, Puts(k, e, h, rec),
           NEW c \in Client, ClientOK(c), client'[c] = client[c]
    PROVE  ClientOK(c)'
  <1>1. /\ k \in Key /\ e \in Entry /\ h \in Handle /\ e # None
        /\ restore' = restore /\ registry' = registry /\ client[c] \in ClientRecord
        /\ entries \in [Key -> Entry \cup {None}] /\ handle \in [Handle -> HandleRecord]
    BY RegistryAssumption DEF Puts, RegistryTypeOK
  <1>2. /\ entries'[k] = e /\ \A l \in Key \ {k} : entries'[l] = entries[l]
        /\ entries[k] = None => client[c].entry # e
        /\ entries[k] \in {None, e}
    BY PutsTables
  <1>3. \A l \in Key : entries'[l] = client[c].entry => entries'[l] = entries[l] \/ client[c].entry = None
    BY <1>2
  <1>4. client[c].using # None => client[c].using \in Handle /\ handle'[client[c].using].life # "none"
    <2>1. \/ handle' = handle
          \/ handle' = [handle EXCEPT ![h] = [life |-> "open", key |-> k, db |-> DbOf(k)]]
      BY <1>1, StateFound DEF Puts
    <2>2. client[c].using # None => client[c].using \in Handle /\ handle[client[c].using].life # "none"
      BY <1>1 DEF ClientOK, ClientRecord
    <2>3. QED
      BY <1>1, <2>1, <2>2
  <1>5. client[c].pc = "leased" /\ registry = "open" => entries'[client[c].key] = client[c].entry
    <2>1. client[c].pc = "leased" => client[c].key \in Key /\ client[c].entry \in Entry
      BY <1>1, RegistryAssumption DEF ClientOK, ClientRecord
    <2>2. QED
      BY <1>1, <1>2, <2>1, RegistryAssumption DEF ClientOK
  <1>6. client[c].pc # "idle" =>
          /\ client[c].key # None /\ client[c].entry # None
          /\ \A l \in Key : entries'[l] = client[c].entry => l = client[c].key
    BY <1>1, <1>3 DEF ClientOK
  <1>7. QED
    BY <1>1, <1>4, <1>5, <1>6 DEF ClientOK

\* A root and database are those of one key, as long as keys stand for databases.
LEMMA OneKeyPerDb ==
    ASSUME RelativeConfig, NEW k \in Key, NEW l \in Key,
           k \notin Root => k[2] # config[RootOf(k)], l \notin Root => l[2] # config[RootOf(l)],
           RootOf(k) = RootOf(l), DbOf(k) = DbOf(l)
    PROVE  k = l
  <1>1. CASE k \in Root /\ l \in Root
    BY <1>1, KeyFacts
  <1>2. CASE k \in Root /\ l \notin Root
    <2>1. RootOf(k) = k /\ DbOf(k) = config[k] /\ l = <<RootOf(l), l[2]>> /\ DbOf(l) = l[2] /\ l[2] \in Db
      BY <1>2, KeyFacts DEF RelativeConfig
    <2>2. QED
      BY <1>2, <2>1
  <1>3. CASE k \notin Root /\ l \in Root
    <2>1. RootOf(l) = l /\ DbOf(l) = config[l] /\ k = <<RootOf(k), k[2]>> /\ DbOf(k) = k[2] /\ k[2] \in Db
      BY <1>3, KeyFacts DEF RelativeConfig
    <2>2. QED
      BY <1>3, <2>1
  <1>4. CASE k \notin Root /\ l \notin Root
    BY <1>4, KeyFacts
  <1>5. QED
    BY <1>1, <1>2, <1>3, <1>4

\* While Close is not under way, an open workspace that is not being restored is at a
\* key; so keys that stand for databases give a database one workspace.
LEMMA OpenAtKeys ==
    ASSUME PlacesOK', draining' = {}, UNCHANGED config,
           \A r \in Root, db \in Db : entries'[<<r, db>>] # None => db # config[r],
           \A k \in Key : WorkspaceAt(k)' # None =>
              handle'[WorkspaceAt(k)'].key = k /\ handle'[WorkspaceAt(k)'].db = DbOf(k)
    PROVE  OneWorkspacePerDb'
  <1> SUFFICES ASSUME RelativeConfig',
                      NEW g \in Handle, NEW h \in Handle,
                      handle'[g].life = "open", handle'[h].life = "open",
                      RootOf(handle'[g].key) = RootOf(handle'[h].key), handle'[g].db = handle'[h].db,
                      g \notin Restored', h \notin Restored'
               PROVE  g = h
    BY DEF OneWorkspacePerDb, RelativeConfig
  <1>1. g # None /\ h # None
    BY RegistryAssumption
  <1>2. HasPlace(g)' /\ HasPlace(h)'
    BY DEF PlacesOK
  <1>3. (\E k \in Key : WorkspaceAt(k)' = g) /\ (\E k \in Key : WorkspaceAt(k)' = h)
    BY <1>1, <1>2 DEF HasPlace, Restored
  <1>4. PICK k \in Key, l \in Key : WorkspaceAt(k)' = g /\ WorkspaceAt(l)' = h
    BY <1>3
  <1>5. /\ handle'[g].key = k /\ handle'[g].db = DbOf(k)
        /\ handle'[h].key = l /\ handle'[h].db = DbOf(l)
    BY <1>1, <1>4
  <1>6. entries'[k] # None /\ entries'[l] # None
    BY <1>1, <1>4 DEF WorkspaceAt
  <1>7. /\ k \notin Root => k[2] # config[RootOf(k)]
        /\ l \notin Root => l[2] # config[RootOf(l)]
    BY <1>6, KeyFacts
  <1>8. k = l
    <2>1. RootOf(k) = RootOf(l) /\ DbOf(k) = DbOf(l)
      BY <1>5
    <2>2. RelativeConfig
      BY DEF RelativeConfig
    <2>3. QED
      BY <1>7, <2>1, <2>2, OneKeyPerDb
  <1>9. QED
    BY <1>4, <1>8

LEMMA PutsKeys ==
    ASSUME RegistryTypeOK, TableOK, RestoreOK, PlacesOK, KeysOK,
           NEW k, NEW e, NEW h, NEW rec, Puts(k, e, h, rec),
           k \notin Root => k[2] # config[RootOf(k)]
    PROVE  /\ KeysOK' /\ handle'[h].key = k /\ handle'[h].db = DbOf(k)
           /\ \A g \in Handle : handle[g].life # "none" => handle'[g].db = handle[g].db
  <1>1. /\ k \in Key /\ e \in Entry /\ h \in Handle /\ h # None /\ restore' = restore
        /\ config' = config /\ draining' = draining /\ registry = "open"
        /\ entries \in [Key -> Entry \cup {None}] /\ handle \in [Handle -> HandleRecord]
        /\ restore \in [Root -> RestoreRecord]
    BY RegistryAssumption DEF Puts, RegistryTypeOK
  <1>2. /\ entries'[k] = e /\ \A l \in Key \ {k} : entries'[l] = entries[l]
    BY PutsTables
  <1>3. /\ PlacesOK' /\ WorkspaceAt(k)' = h /\ WorkspaceAt(k) = entry[e].state
        /\ \A l \in Key \ {k} : WorkspaceAt(l)' = WorkspaceAt(l)
    BY PutsPlaces
  <1>4. \/ entry[e].state = h /\ handle' = handle
        \/ /\ entry[e].state = None /\ handle[h].life = "none"
           /\ handle' = [handle EXCEPT ![h] = [life |-> "open", key |-> k, db |-> DbOf(k)]]
    BY <1>1, StateFound DEF Puts
  <1>5. handle'[h].key = k /\ handle'[h].db = DbOf(k)
    BY <1>1, <1>3, <1>4 DEF KeysOK
  <1>6. \A g \in Handle : handle[g].life # "none" => handle'[g] = handle[g]
    BY <1>1, <1>4
  <1>7. \A r \in Root, db \in Db : entries'[<<r, db>>] # None => db # config[r]
    <2>1. ASSUME NEW r \in Root, NEW db \in Db, <<r, db>> = k PROVE db # config[r]
      <3>1. k \notin Root /\ RootOf(k) = r /\ k[2] = db
        BY <2>1, KeyFacts
      <3>2. QED
        BY <3>1
    <2>2. QED
      BY <1>2, <2>1, KeyFacts DEF KeysOK
  <1>8. ASSUME NEW l \in Key, WorkspaceAt(l)' # None
        PROVE  handle'[WorkspaceAt(l)'].key = l /\ handle'[WorkspaceAt(l)'].db = DbOf(l)
    <2>1. CASE l = k
      BY <1>3, <1>5, <2>1
    <2>2. CASE l # k
      <3>1. WorkspaceAt(l)' = WorkspaceAt(l) /\ WorkspaceAt(l) \in Handle
        BY <1>1, <1>3, <1>8, <2>2 DEF WorkspaceAt, RegistryTypeOK, EntryRecord
      <3>2. handle[WorkspaceAt(l)].life # "none"
        BY <3>1 DEF PlacesOK, HasPlace
      <3>3. QED
        BY <1>6, <1>8, <3>1, <3>2 DEF KeysOK
    <2>3. QED
      BY <2>1, <2>2
  <1>9. ASSUME NEW r \in Root, restore[r].state # None
        PROVE  handle'[restore[r].state].key = r /\ handle'[restore[r].state].db = DbOf(r)
    <2>1. restore[r].state \in Handle
      BY <1>1, <1>9 DEF RestoreRecord
    <2>2. handle[restore[r].state].life # "none"
      BY <2>1 DEF PlacesOK, HasPlace
    <2>3. QED
      BY <1>6, <1>9, <2>1, <2>2 DEF KeysOK
  <1>10. draining' = {}
    BY <1>1 DEF TableOK
  <1>11. OneWorkspacePerDb'
    BY <1>1, <1>3, <1>7, <1>8, <1>10, OpenAtKeys
  <1>12. \A l \in Key : DbOf(l)' = DbOf(l)
    BY <1>1 DEF DbOf
  <1>13. KeysOK'
    BY <1>1, <1>7, <1>8, <1>9, <1>11, <1>12, KeyFacts DEF KeysOK
  <1>14. QED
    BY <1>5, <1>6, <1>13

\* Restores do not notice a change of an entry that keeps its workspace, nor one that
\* leaves the table.
LEMMA KeptRestores ==
    ASSUME RegistryTypeOK, RestoreOK, NEW e \in Entry, NEW rec \in EntryRecord,
           entry' = [entry EXCEPT ![e] = rec], rec.restoring = entry[e].restoring,
           rec.state = entry[e].state \/ rec.leases = 0, rec.leases <= entry[e].leases,
           entry[e].restoring => rec.state = entry[e].state,
           restore' = restore, \A k \in Key : entries'[k] \in {entries[k], None}
    PROVE  RestoreOK'
  <1>1. /\ entry \in [Entry -> EntryRecord] /\ restore \in [Root -> RestoreRecord]
        /\ entries \in [Key -> Entry \cup {None}] /\ None \notin Entry
    BY RegistryAssumption DEF RegistryTypeOK
  <1>2. entry'[e] = rec /\ \A f \in Entry \ {e} : entry'[f] = entry[f]
    BY <1>1
  <1>3. \A f \in Entry : entry[f].leases \in Nat /\ entry'[f].leases \in Nat
                         /\ entry'[f].leases <= entry[f].leases
    BY <1>1, <1>2 DEF EntryRecord
  <1>4. ASSUME NEW f \in Entry
        PROVE  /\ entry'[f].restoring = entry[f].restoring
               /\ entry[f].restoring => entry'[f].state = entry[f].state
               /\ entry'[f].leases > 0 => entry[f].leases > 0 /\ entry'[f].state = entry[f].state
    BY <1>2, <1>3
  <1>5. \A r \in Root : BeingRestored(r)' <=> BeingRestored(r)
    BY DEF BeingRestored
  <1>6. ASSUME NEW r \in Root, BeingRestored(r)
        PROVE  LET f == restore[r].entry
               IN /\ entry'[f].restoring /\ entry'[f].state = None /\ entry'[f].leases = 0
                  /\ \A k \in Key : entries'[k] = f => k = r
    <2>1. restore[r].entry \in Entry /\ entry[restore[r].entry].leases = 0
      BY <1>1, <1>6 DEF RestoreOK, RestoreRecord
    <2>2. QED
      BY <1>1, <1>3, <1>4, <1>6, <2>1 DEF RestoreOK
  <1>7. ASSUME NEW r \in Root, entries'[r] # None, restore[r].stage # "done",
               entry'[entries'[r]].leases > 0
        PROVE  entry'[entries'[r]].state # None
    <2>1. r \in Key /\ entries'[r] = entries[r] /\ entries[r] \in Entry
      BY <1>1, <1>7, KeyFacts
    <2>2. QED
      BY <1>4, <1>7, <2>1 DEF RestoreOK
  <1>8. \A f \in Entry : entry'[f].restoring => \E r \in Root : restore[r].entry = f
    BY <1>4 DEF RestoreOK
  <1>9. QED
    BY <1>5, <1>6, <1>7, <1>8 DEF RestoreOK

\* Keys stand for databases whatever is closed or leaves the table.
LEMMA KeptKeys ==
    ASSUME RegistryTypeOK, PlacesOK, KeysOK, UNCHANGED config,
           \A k \in Key : entries'[k] \in {entries[k], None},
           \A k \in Key : WorkspaceAt(k)' \in {WorkspaceAt(k), None},
           \A h \in Handle : /\ handle'[h].life = "open" => handle[h].life = "open"
                             /\ handle[h].life # "none" => /\ handle'[h].key = handle[h].key
                                                           /\ handle'[h].db = handle[h].db,
           \A r \in Root : \/ restore'[r].state = restore[r].state
                           \/ /\ restore'[r].state = None
                              /\ handle'[restore[r].state].life # "open"
    PROVE  KeysOK'
  <1>1. /\ entry \in [Entry -> EntryRecord] /\ restore \in [Root -> RestoreRecord]
        /\ entries \in [Key -> Entry \cup {None}] /\ handle \in [Handle -> HandleRecord]
    BY DEF RegistryTypeOK
  <1>2. \A k \in Key : DbOf(k)' = DbOf(k)
    BY DEF DbOf
  <1>3. \A r \in Root, db \in Db : entries'[<<r, db>>] # None => db # config'[r]
    BY KeyFacts DEF KeysOK
  <1>4. ASSUME NEW k \in Key, WorkspaceAt(k)' # None
        PROVE  handle'[WorkspaceAt(k)'].key = k /\ handle'[WorkspaceAt(k)'].db = DbOf(k)'
    <2>1. WorkspaceAt(k)' = WorkspaceAt(k)
      BY <1>4
    <2>2. WorkspaceAt(k) \in Handle
      BY <1>1, <1>4, <2>1 DEF WorkspaceAt, EntryRecord
    <2>3. handle[WorkspaceAt(k)].life # "none"
      BY <2>2 DEF PlacesOK, HasPlace
    <2>4. QED
      BY <1>2, <1>4, <2>1, <2>2, <2>3 DEF KeysOK
  <1>5. ASSUME NEW r \in Root, restore'[r].state # None
        PROVE  handle'[restore'[r].state].key = r /\ handle'[restore'[r].state].db = DbOf(r)'
    <2>1. restore'[r].state = restore[r].state /\ restore[r].state \in Handle
      BY <1>1, <1>5 DEF RestoreRecord
    <2>2. handle[restore[r].state].life # "none"
      BY <2>1 DEF PlacesOK, HasPlace
    <2>3. QED
      BY <1>2, <1>5, <2>1, <2>2, KeyFacts DEF KeysOK
  <1>6. ASSUME RelativeConfig', NEW g \in Handle, NEW h \in Handle,
               handle'[g].life = "open", handle'[h].life = "open",
               RootOf(handle'[g].key) = RootOf(handle'[h].key), handle'[g].db = handle'[h].db
        PROVE  g = h \/ {g, h} \cap Restored' # {}
    <2>1. /\ handle[g].life = "open" /\ handle[h].life = "open"
          /\ handle'[g].key = handle[g].key /\ handle'[g].db = handle[g].db
          /\ handle'[h].key = handle[h].key /\ handle'[h].db = handle[h].db
      BY <1>6
    <2>2. g = h \/ {g, h} \cap Restored # {}
      <3>1. RootOf(handle[g].key) = RootOf(handle[h].key) /\ handle[g].db = handle[h].db
        BY <1>6, <2>1
      <3>2. OneWorkspacePerDb
        BY DEF KeysOK
      <3>3. QED
        BY <1>6, <2>1, <3>1, <3>2, RelativeStays DEF OneWorkspacePerDb
    <2>3. ASSUME NEW x \in {g, h}, x \in Restored PROVE x \in Restored'
      <3>1. PICK r \in Root : x = restore[r].state /\ x # None
        BY <2>3 DEF Restored
      <3>2. restore'[r].state = x
        BY <1>6, <2>3, <3>1
      <3>3. QED
        BY <3>1, <3>2 DEF Restored
    <2>4. QED
      BY <2>2, <2>3
  <1>7. QED
    BY <1>3, <1>4, <1>5, <1>6 DEF KeysOK, OneWorkspacePerDb

\* An entry that leaves the table takes its workspace along, which is closed.
LEMMA TakesTables ==
    ASSUME RegistryTypeOK, TableOK, PlacesOK, NEW k, NEW e, NEW rec, Takes(k, e, rec)
    PROVE  /\ entries' \in [Key -> Entry \cup {None}] /\ handle' \in [Handle -> HandleRecord]
           /\ registry = "open" /\ draining = {}
           /\ entries'[k] = None /\ \A l \in Key \ {k} : entries'[l] = entries[l] /\ entries[l] # e
           /\ \A f \in Entry : InTable(f)' <=> InTable(f) /\ f # e
           /\ \A l, m \in Key : entries'[l] # None /\ entries'[l] = entries'[m] => l = m
           /\ WorkspaceAt(k)' = None /\ \A l \in Key \ {k} : WorkspaceAt(l)' = WorkspaceAt(l)
           /\ \A h \in Handle : /\ handle'[h].key = handle[h].key /\ handle'[h].db = handle[h].db
                                /\ handle'[h].life = IF h = entry[e].state THEN "closing"
                                                     ELSE handle[h].life
           /\ entry[e].state # None => handle[entry[e].state].life = "open"
           /\ PlacesOK'
  <1>1. /\ k \in Key /\ e \in Entry /\ e # None /\ entries[k] = e
        /\ entries' = [entries EXCEPT ![k] = None] /\ UNCHANGED <<restore, draining>>
        /\ entry' = [entry EXCEPT ![e] = rec]
        /\ handle' = IF entry[e].state = None THEN handle
                     ELSE [handle EXCEPT ![entry[e].state].life = IF @ = "open" THEN "closing" ELSE "twice"]
    BY RegistryAssumption DEF Takes, Closing
  <1>2. /\ entry \in [Entry -> EntryRecord] /\ entries \in [Key -> Entry \cup {None}]
        /\ handle \in [Handle -> HandleRecord] /\ entry[e].state \in Handle \cup {None}
        /\ None \notin Handle /\ None \notin Entry
    BY <1>1, RegistryAssumption DEF RegistryTypeOK, EntryRecord
  <1>3. registry = "open" /\ draining = {}
    BY <1>1 DEF TableOK
  <1>4. entries'[k] = None /\ \A l \in Key \ {k} : entries'[l] = entries[l] /\ entries[l] # e
    BY <1>1, <1>2 DEF TableOK
  <1>5. WorkspaceAt(k) = entry[e].state /\ WorkspaceAt(k)' = None
    BY <1>1, <1>4 DEF WorkspaceAt
  <1>6. \A l \in Key \ {k} : WorkspaceAt(l)' = WorkspaceAt(l)
    BY <1>1, <1>2, <1>4 DEF WorkspaceAt
  <1>7. \A f \in Entry : InTable(f)' <=> InTable(f) /\ f # e
    BY <1>1, <1>2, <1>4 DEF InTable
  <1>8. \A l, m \in Key : entries'[l] # None /\ entries'[l] = entries'[m] => l = m
    BY <1>2, <1>4 DEF TableOK
  <1>9. entry[e].state # None => handle[entry[e].state].life = "open"
    BY <1>1, <1>2, <1>5 DEF PlacesOK, HasPlace
  <1>10. \A h \in Handle : /\ handle'[h].key = handle[h].key /\ handle'[h].db = handle[h].db
                           /\ handle'[h].life = IF h = entry[e].state THEN "closing"
                                                ELSE handle[h].life
    BY <1>1, <1>2, <1>9 DEF HandleRecord
  <1>11. handle' \in [Handle -> HandleRecord]
    BY <1>1, <1>2, <1>9 DEF HandleRecord
  <1>12. ASSUME NEW h \in Handle PROVE handle'[h].life = "open" <=> HasPlace(h)'
    <2>1. CASE h = entry[e].state
      <3>1. handle'[h].life # "open" /\ WorkspaceAt(k) = h
        BY <1>5, <1>10, <2>1
      <3>2. \A l \in Key : WorkspaceAt(l)' # h
        BY <1>1, <1>2, <1>5, <1>6, <3>1 DEF PlacesOK
      <3>3. \A r \in Root : restore[r].state # h
        BY <1>1, <1>2, <3>1 DEF PlacesOK
      <3>4. QED
        BY <1>1, <1>3, <3>1, <3>2, <3>3 DEF HasPlace
    <2>2. CASE h # entry[e].state
      <3>1. handle'[h].life = handle[h].life
        BY <1>10, <2>2
      <3>2. \A l \in Key : WorkspaceAt(l)' = h <=> WorkspaceAt(l) = h
        BY <1>2, <1>5, <1>6, <2>2
      <3>3. HasPlace(h)' <=> HasPlace(h)
        BY <1>1, <3>2 DEF HasPlace
      <3>4. QED
        BY <3>1, <3>3 DEF PlacesOK
    <2>3. QED
      BY <2>1, <2>2
  <1>13. \A l, m \in Key : WorkspaceAt(l)' # None /\ WorkspaceAt(l)' = WorkspaceAt(m)' => l = m
    BY <1>5, <1>6 DEF PlacesOK
  <1>14. \A r \in Root : restore[r].state # None => \A l \in Key : WorkspaceAt(l)' # restore[r].state
    BY <1>5, <1>6 DEF PlacesOK
  <1>15. \A h \in Handle : /\ handle'[h].life # "twice"
                           /\ handle'[h].life # "none" => handle'[h].key # None
    <2>1. \A h \in Handle : h = entry[e].state => handle[h].life # "none"
      BY <1>9, RegistryAssumption
    <2>2. QED
      BY <1>10, <2>1 DEF PlacesOK
  <1>16. PlacesOK'
    <2>1. \A h \in Handle : handle'[h].life # "twice"
      BY <1>15
    <2>2. \A h \in Handle : handle'[h].life # "none" => handle'[h].key # None
      BY <1>15
    <2>3. /\ \A q, r \in Root : restore[r].state # None /\ restore[r].state = restore[q].state => r = q
          /\ \A r \in Root : restore[r].state # None => restore[r].state \notin draining
      BY DEF PlacesOK
    <2>4. QED
      BY <1>1, <1>12, <1>13, <1>14, <2>1, <2>2, <2>3 DEF PlacesOK
  <1>17. entries' \in [Key -> Entry \cup {None}]
    BY <1>1, <1>2
  <1>18. QED
    BY <1>3, <1>4, <1>5, <1>6, <1>7, <1>8, <1>9, <1>10, <1>11, <1>16, <1>17

LEMMA TakesClients ==
    ASSUME RegistryTypeOK, TableOK, PlacesOK, NEW k, NEW e, NEW rec, Takes(k, e, rec),
           NEW c \in Client, ClientOK(c), client'[c] = client[c],
           ~(client[c].pc = "leased" /\ client[c].entry = e)
    PROVE  ClientOK(c)'
  <1>1. /\ k \in Key /\ e \in Entry /\ e # None /\ UNCHANGED <<restore, registry>>
        /\ client[c] \in ClientRecord /\ None \notin Entry /\ None \notin Key
    BY RegistryAssumption DEF Takes, RegistryTypeOK
  <1>2. /\ entries'[k] = None /\ \A l \in Key \ {k} : entries'[l] = entries[l] /\ entries[l] # e
        /\ \A h \in Handle : handle[h].life # "none" => handle'[h].life # "none"
    BY TakesTables
  <1>3. client[c].pc # "idle" =>
          /\ client[c].key # None /\ client[c].entry # None
          /\ \A l \in Key : entries'[l] = client[c].entry => l = client[c].key
    BY <1>1, <1>2 DEF ClientOK
  <1>4. client[c].pc = "leased" /\ registry = "open" => entries'[client[c].key] = client[c].entry
    <2>1. entries[k] = e
      BY DEF Takes
    <2>2. client[c].pc = "leased" => client[c].key \in Key /\ client[c].entry \in Entry
      BY <1>1 DEF ClientOK, ClientRecord
    <2>3. QED
      BY <1>1, <1>2, <2>1, <2>2 DEF ClientOK
  <1>5. client[c].using # None => handle'[client[c].using].life # "none"
    BY <1>1, <1>2 DEF ClientOK, ClientRecord
  <1>6. QED
    BY <1>1, <1>3, <1>4, <1>5 DEF ClientOK

\* Nothing but the fields of an entry changes.
LEMMA TurnsTables ==
    ASSUME RegistryTypeOK, TableOK, PlacesOK, NEW k, NEW e, NEW rec, TurnsEntry(k, e, rec)
    PROVE  /\ registry = "open"
           /\ \A l \in Key : WorkspaceAt(l)' = WorkspaceAt(l)
           /\ \A f \in Entry : InTable(f)' <=> InTable(f)
           /\ PlacesOK'
  <1>1. /\ k \in Key /\ e \in Entry /\ e # None /\ entries[k] = e
        /\ UNCHANGED <<entries, restore, draining, handle>>
        /\ entry' = [entry EXCEPT ![e] = rec] /\ rec.state = entry[e].state
        /\ entry \in [Entry -> EntryRecord] /\ entries \in [Key -> Entry \cup {None}]
    BY RegistryAssumption DEF TurnsEntry, Retimed, Becomes, RegistryTypeOK
  <1>2. registry = "open"
    BY <1>1 DEF TableOK
  <1>3. \A l \in Key : WorkspaceAt(l)' = WorkspaceAt(l)
    BY <1>1 DEF WorkspaceAt
  <1>4. \A h : HasPlace(h)' <=> HasPlace(h)
    BY <1>1, <1>3 DEF HasPlace
  <1>5. PlacesOK'
    BY <1>1, <1>3, <1>4 DEF PlacesOK
  <1>6. \A f \in Entry : InTable(f)' <=> InTable(f)
    BY <1>1 DEF InTable
  <1>7. QED
    BY <1>2, <1>3, <1>5, <1>6

\* A request that a step leaves alone.
LEMMA StillClient ==
    ASSUME NEW c \in Client, ClientOK(c), client[c] \in ClientRecord, client'[c] = client[c],
           entries' = entries, registry' = registry,
           \A r \in Root : restore[r].stage = "done" => restore'[r].stage = "done",
           \A r \in Root : restore[r].entry # None =>
              restore'[r].stage = "done" \/ restore'[r].entry = restore[r].entry,
           \A h \in Handle : handle[h].life # "none" => handle'[h].life # "none"
    PROVE  ClientOK(c)'
  <1>1. client[c].using # None => handle'[client[c].using].life # "none"
    BY DEF ClientOK, ClientRecord
  <1>2. client[c].pc \in {"acquire", "add"} =>
           \/ restore'[client[c].key].stage = "done"
           \/ restore'[client[c].key].entry = client[c].entry
    BY DEF ClientOK
  <1>3. QED
    BY <1>1, <1>2 DEF ClientOK

\* A bound that is not used yet has not been used before.
Spent == /\ used' \in [Budget -> Nat]
         /\ used'["faults"] = 0 => used["faults"] = 0
         /\ used'["edits"] = 0 => used["edits"] = 0

LEMMA SpendSpends ==
    ASSUME RegistryTypeOK, NEW bs
    PROVE  /\ Spend(bs) => Spent
           /\ Spend(bs) /\ "faults" \in bs => used'["faults"] # 0
           /\ Spend(bs) /\ "edits" \in bs => used'["edits"] # 0
           /\ UNCHANGED used => Spent
  BY DEF RegistryTypeOK, Spend, Spent, Budget

\* The holders of an entry are finitely many, and are counted before and after a step.
LEMMA HoldersCounted ==
    ASSUME NEW e \in Entry
    PROVE  /\ IsFiniteSet(Holders(e)) /\ Cardinality(Holders(e)) \in Nat
           /\ Cardinality(Holders(e)) = 0 <=> Holders(e) = {}
  <1>1. IsFiniteSet(Holders(e))
    BY RegistryAssumption, FS_Subset DEF Holders
  <1>2. QED
    BY <1>1, FS_CardinalityType, FS_EmptySet

LEMMA PutsCounted ==
    ASSUME RegistryTypeOK, TableOK, RestoreOK, HoldersOK, NEW k, NEW e, NEW h, NEW rec,
           Puts(k, e, h, rec)
    PROVE  entry[e].leases = Cardinality(Holders(e))
  <1>1. e \in Entry /\ k \in Key
    BY DEF Puts
  <1>2. CASE entries[k] = e
    BY <1>1, <1>2 DEF HoldersOK, InTable
  <1>3. CASE entries[k] # e
    <2>1. entry[e] = NoEntry /\ \A c \in Client : client[c].entry # e
      BY <1>3, PutsTables
    <2>2. Holders(e) = {} /\ entry[e].leases = 0
      BY <2>1 DEF Holders, NoEntry
    <2>3. QED
      BY <1>1, <2>2, HoldersCounted
  <1>4. QED
    BY <1>2, <1>3

\* A step that puts an entry in the table keeps the invariant, if it agrees with what it
\* does to the file, the requests and the bounds.
LEMMA PutsInv ==
    ASSUME RegistryInv, NEW k, NEW e, NEW h, NEW rec, Puts(k, e, h, rec), Spent,
           k \notin Root => (used["edits"] = 0 => k[2] # config[RootOf(k)]),
           saved' = {r \in Root : entries'[r] # None /\ entry'[entries'[r]].explicit},
           client' \in [Client -> ClientRecord], \A c \in Client : ClientOK(c)',
           \A f \in Entry : InTable(f)' => entry'[f].leases = Cardinality(Holders(f)'),
           used["edits"] = 0 /\ KeysOK' => AsksOK',
           used["edits"] = 0 /\ used["faults"] = 0 => UsingOK'
    PROVE  RegistryInv'
  <1> USE DEF RegistryInv
  <1>1. /\ k \in Key /\ e \in Entry /\ h \in Handle /\ h # None /\ registry = "open"
        /\ UNCHANGED <<restore, config, registry, draining>>
        /\ Retimed(e, rec) /\ Wanted(rec) /\ rec.state = h
        /\ entry' = [entry EXCEPT ![e] = rec] /\ entry \in [Entry -> EntryRecord]
    BY RegistryAssumption DEF Puts, Retimed, Becomes, RegistryTypeOK
  <1>2. /\ entries' \in [Key -> Entry \cup {None}] /\ handle' \in [Handle -> HandleRecord]
        /\ \A f \in Entry : InTable(f)' => InTable(f) \/ f = e
        /\ \A l, m \in Key : entries'[l] # None /\ entries'[l] = entries'[m] => l = m
    BY PutsTables
  <1>3. TimerOK' /\ due' \subseteq Entry \X Nat /\ stale' \subseteq due'
        /\ entry' \in [Entry -> EntryRecord]
    BY <1>1, <1>2, RetimedTimers
  <1>4. RegistryTypeOK'
    <2>1. saved' \subseteq Root
      OBVIOUS
    <2>2. QED
      BY <1>1, <1>2, <1>3, <2>1 DEF RegistryTypeOK, Spent
  <1>5. TableOK'
    BY <1>1, <1>2 DEF TableOK
  <1>6. RestoreOK' /\ PlacesOK'
    BY PutsRestores, PutsPlaces
  <1>7. HoldersOK'
    BY DEF HoldersOK
  <1>8. used'["faults"] = 0 => LeasedOK'
    <2>1. ASSUME used'["faults"] = 0, NEW f \in Entry, InTable(f)', entry'[f].leases > 0
          PROVE  entry'[f].state # None
      <3>1. CASE f = e
        BY <1>1, <3>1
      <3>2. CASE f # e
        BY <1>1, <1>2, <2>1, <3>2 DEF Spent, UntroubledOK, LeasedOK
      <3>3. QED
        BY <3>1, <3>2
    <2>2. QED
      BY <2>1 DEF LeasedOK
  <1>9. used'["edits"] = 0 => KeysOK' /\ AsksOK'
    <2>1. used'["edits"] = 0 => used["edits"] = 0 /\ KeysOK
      BY DEF Spent, UntroubledOK
    <2>2. used'["edits"] = 0 => KeysOK'
      BY <2>1, PutsKeys
    <2>3. QED
      BY <2>1, <2>2
  <1>10. UntroubledOK'
    BY <1>8, <1>9 DEF UntroubledOK, Spent
  <1>11. QED
    BY <1>3, <1>4, <1>5, <1>6, <1>7, <1>10

\* The registry file still lists the explicit roots.
LEMMA PutsSaved ==
    ASSUME RegistryTypeOK, TableOK, RestoreOK, NEW k, NEW e, NEW h, NEW rec, Puts(k, e, h, rec),
           rec.explicit = entry[e].explicit
    PROVE  saved = {r \in Root : entries'[r] # None /\ entry'[entries'[r]].explicit}
  <1>1. /\ k \in Key /\ e \in Entry /\ registry = "open"
        /\ entry' = [entry EXCEPT ![e] = rec] /\ entry \in [Entry -> EntryRecord]
        /\ entries \in [Key -> Entry \cup {None}] /\ None \notin Entry
    BY RegistryAssumption DEF Puts, Retimed, Becomes, RegistryTypeOK
  <1>2. /\ entries'[k] = e /\ \A l \in Key \ {k} : entries'[l] = entries[l]
        /\ \A l \in Key : entries[l] = e => l = k
        /\ entries[k] = None => entry[e] = NoEntry
        /\ entries[k] \in {None, e}
    BY PutsTables
  <1>3. entry'[e] = rec /\ \A f \in Entry \ {e} : entry'[f] = entry[f]
    BY <1>1
  <1>4. ASSUME NEW r \in Root
        PROVE  entries'[r] # None /\ entry'[entries'[r]].explicit
               <=> entries[r] # None /\ entry[entries[r]].explicit
    <2>1. r \in Key /\ entries[r] \in Entry \cup {None}
      BY <1>1, KeyFacts
    <2>2. CASE r = k
      BY <1>1, <1>2, <1>3, <2>2 DEF NoEntry
    <2>3. CASE r # k
      BY <1>2, <1>3, <2>1, <2>3
    <2>4. QED
      BY <2>2, <2>3
  <1>5. QED
    BY <1>1, <1>4 DEF TableOK

\* The fields of an entry that is leased once more.
Leased(rec, h) == Unscheduled([rec EXCEPT !.state = h, !.leases = @ + 1])

LEMMA LeaseFields ==
    ASSUME NEW rec \in EntryRecord, NEW h \in Handle \cup {None}
    PROVE  LET new == Leased(rec, h)
           IN /\ new \in EntryRecord /\ new.state = h /\ new.leases = rec.leases + 1 /\ ~new.timer
              /\ new.restoring = rec.restoring /\ new.explicit = rec.explicit
              /\ new.removing = rec.removing /\ new.epoch = rec.epoch + 1
  <1>1. PICK n \in Nat : n = rec.leases + 1
    BY DEF EntryRecord
  <1>2. [rec EXCEPT !.state = h, !.leases = n] \in EntryRecord
    BY DEF EntryRecord
  <1>3. [rec EXCEPT !.state = h, !.leases = @ + 1] = [rec EXCEPT !.state = h, !.leases = n]
    BY <1>1 DEF EntryRecord
  <1>4. /\ [rec EXCEPT !.state = h, !.leases = n].state = h
        /\ [rec EXCEPT !.state = h, !.leases = n].leases = n
        /\ [rec EXCEPT !.state = h, !.leases = n].restoring = rec.restoring
        /\ [rec EXCEPT !.state = h, !.leases = n].explicit = rec.explicit
        /\ [rec EXCEPT !.state = h, !.leases = n].removing = rec.removing
        /\ [rec EXCEPT !.state = h, !.leases = n].epoch = rec.epoch
    BY DEF EntryRecord
  <1>5. QED
    BY <1>1, <1>2, <1>3, <1>4, Rescheduled DEF Leased

LEMMA LeaseInv ==
    ASSUME RegistryInv, NEW c \in Client, NEW k \in Key, NEW ask \in Db \cup {None},
           NEW e \in Entry, NEW h \in Handle, Lease(c, k, ask, e, h), Spent,
           client[c].pc \in {"idle", "acquire"}, registry = "open", EntryAt(k, e),
           ~entry[e].restoring,
           UNCHANGED <<saved, restore, config, registry, draining>>,
           k \notin Root => (used["edits"] = 0 => k[2] # config[RootOf(k)]),
           used["edits"] = 0 => IF k \in Root THEN ask \in {None, config[k]} ELSE ask = k[2]
    PROVE  RegistryInv'
  <1> DEFINE rec == Leased(entry[e], h)
  <1> USE DEF RegistryInv
  <1>1. /\ entry \in [Entry -> EntryRecord] /\ entry[e] \in EntryRecord
        /\ client \in [Client -> ClientRecord] /\ None \notin Entry /\ None \notin Key
        /\ entry[e].leases \in Nat /\ entry[e].epoch \in Nat
    BY RegistryAssumption DEF RegistryTypeOK, EntryRecord
  <1>2. /\ rec \in EntryRecord /\ rec.state = h /\ rec.leases = entry[e].leases + 1 /\ ~rec.timer
        /\ rec.restoring = entry[e].restoring /\ rec.explicit = entry[e].explicit
        /\ rec.removing = entry[e].removing /\ rec.epoch = entry[e].epoch + 1
    BY <1>1, LeaseFields
  <1>3. ~entry[e].removing /\ StateOf(e, k, h) /\ Becomes(e, rec) /\ Touch(e)
        /\ entries' = [entries EXCEPT ![k] = e]
    BY DEF Lease, Leased
  <1> HIDE DEF rec
  <1>4. Puts(k, e, h, rec)
    <2>1. Retimed(e, rec)
      BY <1>1, <1>2, <1>3 DEF Retimed
    <2>2. Wanted(rec)
      BY <1>1, <1>2 DEF Wanted
    <2>3. QED
      BY <1>2, <1>3, <2>1, <2>2 DEF Puts
  <1>5. DEFINE new == [NoClient EXCEPT !.pc = "leased", !.key = k, !.ask = ask, !.entry = e]
  <1>6. /\ new.pc = "leased" /\ new.key = k /\ new.ask = ask /\ new.entry = e
        /\ new.using = None /\ new.removing = FALSE /\ new \in ClientRecord
    BY DEF NoClient, ClientRecord
  <1>7. client' = [client EXCEPT ![c] = new]
    BY DEF Lease
  <1> HIDE DEF new
  <1>8. client' \in [Client -> ClientRecord] /\ client'[c] = new
        /\ \A d \in Client \ {c} : client'[d] = client[d]
    BY <1>1, <1>6, <1>7
  <1>9. entries'[k] = e /\ \A l \in Key : entries'[l] = e => l = k
    BY <1>4, PutsTables
  <1>10. ASSUME NEW d \in Client PROVE ClientOK(d)'
    <2>1. CASE d = c
      BY <1>1, <1>6, <1>8, <1>9, <2>1 DEF ClientOK
    <2>2. CASE d # c
      BY <1>4, <1>8, <2>2, PutsClients DEF HoldersOK
    <2>3. QED
      BY <2>1, <2>2
  <1>11. ASSUME NEW f \in Entry, InTable(f)' PROVE entry'[f].leases = Cardinality(Holders(f)')
    <2>1. CASE f = e
      <3>1. entry'[e] = rec
        BY <1>1, <1>3 DEF Becomes
      <3>2. c \notin Holders(e) /\ Holders(e)' = Holders(e) \cup {c}
        BY <1>6, <1>8 DEF Holders
      <3>3. Cardinality(Holders(e)') = Cardinality(Holders(e)) + 1
        BY <3>2, HoldersCounted, FS_AddElement
      <3>4. entry[e].leases = Cardinality(Holders(e))
        BY <1>4, PutsCounted
      <3>5. QED
        BY <1>2, <2>1, <3>1, <3>3, <3>4
    <2>2. CASE f # e
      <3>1. InTable(f) /\ entry'[f] = entry[f]
        BY <1>1, <1>3, <1>4, <1>11, <2>2, PutsTables DEF Becomes
      <3>2. client[c].pc = "leased" => client[c].entry # f
        OBVIOUS
      <3>3. Holders(f)' = Holders(f)
        BY <1>6, <1>8, <2>2 DEF Holders
      <3>4. QED
        BY <3>1, <3>3 DEF HoldersOK
    <2>3. QED
      BY <2>1, <2>2
  <1>12. saved' = {r \in Root : entries'[r] # None /\ entry'[entries'[r]].explicit}
    BY <1>2, <1>4, PutsSaved
  <1>13. ASSUME used["edits"] = 0, KeysOK' PROVE AsksOK'
    <2>1. \A d \in Client : client'[d].using # None =>
             /\ d # c /\ client'[d] = client[d] /\ client[d].using \in Handle
             /\ handle[client[d].using].life # "none"
      BY <1>1, <1>6, <1>8 DEF HoldersOK, ClientOK, ClientRecord
    <2>2. \A g \in Handle : handle[g].life # "none" => handle'[g].db = handle[g].db
      BY <1>4, <1>13, PutsKeys DEF UntroubledOK
    <2>3. DbAsRequested'
      BY <1>13, <2>1, <2>2 DEF UntroubledOK, AsksOK, DbAsRequested, RelativeConfig
    <2>4. \A d \in Client : client'[d].pc \in {"acquire", "leased"} =>
             IF client'[d].key \in Root THEN client'[d].ask \in {None, config'[client'[d].key]}
                                        ELSE client'[d].ask = client'[d].key[2]
      BY <1>6, <1>8, <1>13 DEF UntroubledOK, AsksOK
    <2>5. QED
      BY <2>3, <2>4 DEF AsksOK
  <1>14. ASSUME used["edits"] = 0, used["faults"] = 0 PROVE UsingOK'
    <2>1. ASSUME NEW d \in Client, client'[d].using # None
          PROVE  client'[d].using = entry'[client'[d].entry].state
      <3>1. d # c /\ client'[d] = client[d]
        BY <1>6, <1>8, <2>1
      <3>2. client[d].entry \in Entry /\ client[d].using = entry[client[d].entry].state
        BY <1>1, <1>14, <2>1, <3>1 DEF UntroubledOK, UsingOK, HoldersOK, ClientOK, ClientRecord, NoClient
      <3>3. CASE client[d].entry = e
        <4>1. h = entry[e].state
          BY <1>3, <2>1, <3>1, <3>2, <3>3 DEF StateOf
        <4>2. QED
          BY <1>1, <1>2, <1>3, <3>1, <3>2, <3>3, <4>1 DEF Becomes
      <3>4. CASE client[d].entry # e
        BY <1>1, <1>3, <3>1, <3>2, <3>4 DEF Becomes
      <3>5. QED
        BY <3>3, <3>4
    <2>2. QED
      BY <2>1 DEF UsingOK
  <1>15. QED
    BY <1>4, <1>8, <1>10, <1>11, <1>12, <1>13, <1>14, PutsInv

\* What nobody troubled stays untroubled by a step that opens nothing.
LEMMA KeptUntroubled ==
    ASSUME RegistryTypeOK, HoldersOK, PlacesOK, UntroubledOK, Spent, UNCHANGED config,
           \A k \in Key : entries'[k] \in {entries[k], None},
           \A k \in Key : WorkspaceAt(k)' \in {WorkspaceAt(k), None},
           \A h \in Handle : /\ handle'[h].life = "open" => handle[h].life = "open"
                             /\ handle[h].life # "none" => /\ handle'[h].key = handle[h].key
                                                           /\ handle'[h].db = handle[h].db,
           \A r \in Root : \/ restore'[r].state = restore[r].state
                           \/ /\ restore'[r].state = None
                              /\ handle'[restore[r].state].life # "open",
           \A c \in Client : client'[c] = client[c] \/ client'[c] = NoClient,
           registry' = "open" => registry = "open",
           used'["faults"] = 0 =>
              /\ LeasedOK => LeasedOK'
              /\ \A c \in Client : client'[c].pc = "leased" /\ registry' = "open" =>
                    entry'[client[c].entry].state = entry[client[c].entry].state
    PROVE  UntroubledOK'
  <1>1. \A c \in Client : /\ client[c] \in ClientRecord
                          /\ client'[c].using # None => client'[c] = client[c] /\ client[c].pc = "leased"
                          /\ client'[c].pc \in {"acquire", "leased"} => client'[c] = client[c]
    BY DEF RegistryTypeOK, HoldersOK, ClientOK, ClientRecord, NoClient
  <1>2. KeysOK => KeysOK'
    BY KeptKeys
  <1>3. ASSUME AsksOK PROVE AsksOK'
    <2>1. ASSUME RelativeConfig', NEW c \in Client, client'[c].using # None, client'[c].ask # None
          PROVE  handle'[client'[c].using].db = client'[c].ask
      <3>1. client[c].using \in Handle /\ handle[client[c].using].life # "none"
        BY <1>1, <2>1 DEF HoldersOK, ClientOK, ClientRecord
      <3>2. QED
        BY <1>1, <1>3, <2>1, <3>1, RelativeStays DEF AsksOK, DbAsRequested
    <2>2. QED
      BY <1>1, <1>3, <2>1 DEF AsksOK, DbAsRequested
  <1>4. ASSUME UsingOK, used'["faults"] = 0 PROVE UsingOK'
    BY <1>1, <1>4 DEF UsingOK
  <1>5. QED
    BY <1>2, <1>3, <1>4 DEF UntroubledOK, Spent

\* An entry that was not explicit leaves the table: the registry file is right as it is.
LEMMA TakesSaved ==
    ASSUME RegistryTypeOK, TableOK, PlacesOK, NEW k, NEW e, NEW rec, Takes(k, e, rec),
           ~entry[e].explicit
    PROVE  saved = {r \in Root : entries'[r] # None /\ entry'[entries'[r]].explicit}
  <1>1. /\ registry = "open" /\ k \in Key /\ e \in Entry /\ entries[k] = e
        /\ entry' = [entry EXCEPT ![e] = rec] /\ entry \in [Entry -> EntryRecord]
    BY TakesTables DEF Takes, RegistryTypeOK
  <1>2. entries'[k] = None /\ \A l \in Key \ {k} : entries'[l] = entries[l] /\ entries[l] # e
    BY TakesTables
  <1>3. \A f \in Entry \ {e} : entry'[f] = entry[f]
    BY <1>1
  <1>4. ASSUME NEW r \in Root
        PROVE  entries'[r] # None /\ entry'[entries'[r]].explicit
               <=> entries[r] # None /\ entry[entries[r]].explicit
    <2>1. r \in Key /\ entries[r] \in Entry \cup {None}
      BY KeyFacts DEF RegistryTypeOK
    <2>2. CASE r = k
      BY <1>1, <1>2, <2>2
    <2>3. CASE r # k
      BY <1>2, <1>3, <2>1, <2>3
    <2>4. QED
      BY <2>2, <2>3
  <1>5. QED
    BY <1>1, <1>4 DEF TableOK

\* A step that takes an entry from the table keeps the invariant, if the entry's
\* holders leave with it.
LEMMA TakesInv ==
    ASSUME RegistryInv, NEW k, NEW e, NEW rec, Takes(k, e, rec), Spent,
           TimerOK', due' \subseteq Entry \X Nat, stale' \subseteq due',
           saved' = {r \in Root : entries'[r] # None /\ entry'[entries'[r]].explicit},
           client' \in [Client -> ClientRecord],
           \A c \in Client : \/ client'[c] = client[c] /\ ~(client[c].pc = "leased" /\ client[c].entry = e)
                             \/ client'[c] = NoClient /\ client[c].entry = e
    PROVE  RegistryInv'
  <1> USE DEF RegistryInv
  <1>1. /\ k \in Key /\ e \in Entry /\ entries[k] = e /\ UNCHANGED <<restore, config, registry, draining>>
        /\ entry' = [entry EXCEPT ![e] = rec] /\ rec \in EntryRecord
        /\ rec.state = entry[e].state /\ rec.restoring = entry[e].restoring
        /\ rec.leases <= entry[e].leases
        /\ entry \in [Entry -> EntryRecord] /\ entries \in [Key -> Entry \cup {None}]
        /\ None \notin Entry /\ None \notin Handle
    BY RegistryAssumption DEF Takes, RegistryTypeOK
  <1>2. /\ entries' \in [Key -> Entry \cup {None}] /\ handle' \in [Handle -> HandleRecord]
        /\ registry = "open" /\ draining = {}
        /\ entries'[k] = None /\ \A l \in Key \ {k} : entries'[l] = entries[l] /\ entries[l] # e
        /\ \A f \in Entry : InTable(f)' <=> InTable(f) /\ f # e
        /\ \A l, m \in Key : entries'[l] # None /\ entries'[l] = entries'[m] => l = m
        /\ WorkspaceAt(k)' = None /\ \A l \in Key \ {k} : WorkspaceAt(l)' = WorkspaceAt(l)
        /\ \A h \in Handle : /\ handle'[h].key = handle[h].key /\ handle'[h].db = handle[h].db
                             /\ handle'[h].life = IF h = entry[e].state THEN "closing"
                                                  ELSE handle[h].life
        /\ PlacesOK'
    BY TakesTables
  <1>3. entry' \in [Entry -> EntryRecord] /\ entry'[e] = rec
        /\ \A f \in Entry \ {e} : entry'[f] = entry[f]
    BY <1>1
  <1>4. RegistryTypeOK'
    BY <1>1, <1>2, <1>3 DEF RegistryTypeOK, Spent
  <1>5. TableOK'
    BY <1>1, <1>2 DEF TableOK
  <1>6. RestoreOK'
    <2>1. \A l \in Key : entries'[l] \in {entries[l], None}
      BY <1>2
    <2>2. entry[e].restoring => rec.state = entry[e].state
      BY <1>1
    <2>3. QED
      BY <1>1, <2>1, <2>2, KeptRestores
  <1>7. NoClient.pc = "idle" /\ NoClient.using = None /\ NoClient.entry = None
    BY DEF NoClient
  <1>8. ASSUME NEW c \in Client PROVE ClientOK(c)'
    <2>1. CASE client'[c] = client[c] /\ ~(client[c].pc = "leased" /\ client[c].entry = e)
      BY <2>1, TakesClients DEF HoldersOK
    <2>2. CASE client'[c] = NoClient
      BY <1>7, <2>2 DEF ClientOK
    <2>3. QED
      BY <2>1, <2>2
  <1>9. ASSUME NEW f \in Entry, InTable(f)' PROVE entry'[f].leases = Cardinality(Holders(f)')
    <2>1. f # e /\ InTable(f)
      BY <1>2, <1>9
    <2>2. Holders(f)' = Holders(f)
      BY <1>7, <2>1 DEF Holders
    <2>3. QED
      BY <1>3, <2>1, <2>2 DEF HoldersOK
  <1>10. HoldersOK'
    BY <1>8, <1>9 DEF HoldersOK
  <1>11. UntroubledOK'
    <2>1. \A l \in Key : entries'[l] \in {entries[l], None} /\ WorkspaceAt(l)' \in {WorkspaceAt(l), None}
      BY <1>2
    <2>2. \A h \in Handle : /\ handle'[h].life = "open" => handle[h].life = "open"
                            /\ handle[h].life # "none" => /\ handle'[h].key = handle[h].key
                                                          /\ handle'[h].db = handle[h].db
      BY <1>2
    <2>3. LeasedOK => LeasedOK'
      BY <1>2, <1>3 DEF LeasedOK
    <2>4. ASSUME NEW c \in Client, client'[c].pc = "leased"
          PROVE  entry'[client[c].entry].state = entry[client[c].entry].state
      <3>1. client[c].entry \in Entry
        BY <1>7, <2>4 DEF RegistryTypeOK, HoldersOK, ClientOK, ClientRecord
      <3>2. QED
        BY <1>1, <1>3, <3>1
    <2>5. QED
      BY <1>1, <2>1, <2>2, <2>3, <2>4, KeptUntroubled
  <1>12. QED
    BY <1>2, <1>4, <1>5, <1>6, <1>10, <1>11

\* A step that changes the fields of an entry keeps the invariant, if it agrees with
\* what it does to the file and the holders.
LEMMA TurnsInv ==
    ASSUME RegistryInv, NEW k, NEW e, NEW rec, TurnsEntry(k, e, rec), Spent,
           rec.leases <= entry[e].leases, rec.leases = Cardinality(Holders(e)'),
           saved' = {r \in Root : entries[r] # None /\ entry'[entries[r]].explicit},
           client' \in [Client -> ClientRecord],
           \A c \in Client : \/ client'[c] = client[c]
                             \/ client'[c] = NoClient /\ (client[c].pc = "leased" => client[c].entry = e)
    PROVE  RegistryInv'
  <1> USE DEF RegistryInv
  <1>1. /\ k \in Key /\ e \in Entry /\ entries[k] = e
        /\ UNCHANGED <<entries, handle, restore, config, registry, draining>>
        /\ entry' = [entry EXCEPT ![e] = rec] /\ rec \in EntryRecord
        /\ rec.state = entry[e].state /\ rec.restoring = entry[e].restoring
        /\ Retimed(e, rec) /\ Wanted(rec)
        /\ entry \in [Entry -> EntryRecord] /\ entries \in [Key -> Entry \cup {None}]
        /\ None \notin Entry /\ None \notin Handle
    BY RegistryAssumption DEF TurnsEntry, Retimed, Becomes, RegistryTypeOK
  <1>2. /\ registry = "open" /\ PlacesOK'
        /\ \A l \in Key : WorkspaceAt(l)' = WorkspaceAt(l)
        /\ \A f \in Entry : InTable(f)' <=> InTable(f)
    BY TurnsTables
  <1>3. entry'[e] = rec /\ \A f \in Entry \ {e} : entry'[f] = entry[f]
    BY <1>1
  <1>4. TimerOK' /\ due' \subseteq Entry \X Nat /\ stale' \subseteq due'
        /\ entry' \in [Entry -> EntryRecord]
    BY <1>1, <1>2, RetimedTimers
  <1>5. RegistryTypeOK'
    BY <1>1, <1>4 DEF RegistryTypeOK, Spent
  <1>6. TableOK'
    BY <1>1, <1>2 DEF TableOK
  <1>7. RestoreOK'
    <2>1. \A l \in Key : entries'[l] \in {entries[l], None}
      BY <1>1
    <2>2. entry[e].restoring => rec.state = entry[e].state
      BY <1>1
    <2>3. QED
      BY <1>1, <2>1, <2>2, KeptRestores
  <1>8. NoClient.pc = "idle" /\ NoClient.using = None /\ NoClient.entry = None
    BY DEF NoClient
  <1>9. ASSUME NEW c \in Client PROVE ClientOK(c)'
    <2>1. CASE client'[c] = client[c]
      BY <1>1, <2>1, StillClient DEF HoldersOK, RegistryTypeOK
    <2>2. CASE client'[c] = NoClient
      BY <1>8, <2>2 DEF ClientOK
    <2>3. QED
      BY <2>1, <2>2
  <1>10. ASSUME NEW f \in Entry, InTable(f)' PROVE entry'[f].leases = Cardinality(Holders(f)')
    <2>1. CASE f = e
      BY <1>3, <2>1
    <2>2. CASE f # e
      <3>1. Holders(f)' = Holders(f)
        BY <1>8, <2>2 DEF Holders
      <3>2. QED
        BY <1>2, <1>3, <1>10, <2>2, <3>1 DEF HoldersOK
    <2>3. QED
      BY <2>1, <2>2
  <1>11. UntroubledOK'
    <2>1. \A l \in Key : entries'[l] \in {entries[l], None} /\ WorkspaceAt(l)' \in {WorkspaceAt(l), None}
      BY <1>1, <1>2
    <2>2. LeasedOK => LeasedOK'
      <3>1. \A n, m \in Nat : n <= m /\ n > 0 => m > 0
        OBVIOUS
      <3>2. rec.leases \in Nat /\ entry[e].leases \in Nat
        BY <1>1 DEF EntryRecord
      <3>3. rec.leases > 0 => entry[e].leases > 0
        BY <3>1, <3>2
      <3>4. QED
        BY <1>1, <1>2, <1>3, <3>3 DEF LeasedOK
    <2>3. ASSUME NEW c \in Client, client'[c].pc = "leased"
          PROVE  entry'[client[c].entry].state = entry[client[c].entry].state
      <3>1. client[c].entry \in Entry
        BY <1>8, <2>3 DEF RegistryTypeOK, HoldersOK, ClientOK, ClientRecord
      <3>2. QED
        BY <1>1, <1>3, <3>1
    <2>4. QED
      BY <1>1, <2>1, <2>2, <2>3, KeptUntroubled
  <1>12. QED
    BY <1>2, <1>4, <1>5, <1>6, <1>7, <1>9, <1>10, <1>11 DEF HoldersOK

\* The registry file is right as long as the entry stays as explicit as it was.
LEMMA TurnsSaved ==
    ASSUME RegistryTypeOK, TableOK, PlacesOK, NEW k, NEW e, NEW rec, TurnsEntry(k, e, rec),
           rec.explicit = entry[e].explicit
    PROVE  saved = {r \in Root : entries[r] # None /\ entry'[entries[r]].explicit}
  <1>1. /\ registry = "open" /\ e \in Entry
        /\ entry' = [entry EXCEPT ![e] = rec] /\ entry \in [Entry -> EntryRecord]
    BY TurnsTables DEF TurnsEntry, Retimed, Becomes, RegistryTypeOK
  <1>2. \A f \in Entry : entry'[f].explicit = entry[f].explicit
    BY <1>1
  <1>3. \A r \in Root : entries[r] \in Entry \cup {None}
    BY KeyFacts DEF RegistryTypeOK
  <1>4. QED
    BY <1>1, <1>2, <1>3 DEF TableOK

\* The same when no request gets or loses a lease.
LEMMA PutsQuietInv ==
    ASSUME RegistryInv, NEW k \in Root, NEW e, NEW h, NEW rec, Puts(k, e, h, rec), Spent,
           rec.leases = entry[e].leases,
           saved' = {r \in Root : entries'[r] # None /\ entry'[entries'[r]].explicit},
           client' \in [Client -> ClientRecord],
           \A c \in Client : \/ client'[c] = client[c]
                             \/ client'[c] = NoClient /\ client[c].pc # "leased"
    PROVE  RegistryInv'
  <1> USE DEF RegistryInv
  <1>1. /\ k \in Key /\ e \in Entry /\ h \in Handle /\ UNCHANGED <<restore, config, registry, draining>>
        /\ entry' = [entry EXCEPT ![e] = rec] /\ entry \in [Entry -> EntryRecord]
        /\ rec.state = h /\ StateOf(e, k, h) /\ client \in [Client -> ClientRecord]
        /\ None \notin Entry
    BY RegistryAssumption DEF Puts, Retimed, Becomes, RegistryTypeOK
  <1>2. entry'[e] = rec /\ \A f \in Entry \ {e} : entry'[f] = entry[f]
    BY <1>1
  <1>3. /\ NoClient.pc = "idle" /\ NoClient.using = None
        /\ \A c \in Client : client'[c].using # None => client'[c] = client[c]
        /\ \A c \in Client : client'[c].pc # "idle" => client'[c] = client[c]
    BY DEF NoClient
  <1>4. ASSUME NEW c \in Client PROVE ClientOK(c)'
    <2>1. CASE client'[c] = client[c]
      BY <2>1, PutsClients DEF HoldersOK
    <2>2. CASE client'[c] = NoClient
      BY <1>3, <2>2 DEF ClientOK
    <2>3. QED
      BY <2>1, <2>2
  <1>5. ASSUME NEW f \in Entry, InTable(f)' PROVE entry'[f].leases = Cardinality(Holders(f)')
    <2>1. Holders(f)' = Holders(f)
      BY <1>3 DEF Holders
    <2>2. CASE f = e
      BY <1>2, <2>1, <2>2, PutsCounted
    <2>3. CASE f # e
      <3>1. InTable(f)
        BY <1>5, <2>3, PutsTables
      <3>2. QED
        BY <1>2, <2>1, <2>3, <3>1 DEF HoldersOK
    <2>4. QED
      BY <2>2, <2>3
  <1>6. ASSUME used["edits"] = 0, KeysOK' PROVE AsksOK'
    <2>1. \A g \in Handle : handle[g].life # "none" => handle'[g].db = handle[g].db
      BY <1>6, PutsKeys DEF UntroubledOK
    <2>2. ASSUME RelativeConfig', NEW c \in Client, client'[c].using # None, client'[c].ask # None
          PROVE  handle'[client'[c].using].db = client'[c].ask
      <3>1. /\ client'[c] = client[c] /\ client[c].using \in Handle
            /\ handle[client[c].using].life # "none"
        BY <1>1, <1>3, <2>2 DEF HoldersOK, ClientOK, ClientRecord
      <3>2. QED
        BY <1>1, <1>6, <2>1, <2>2, <3>1, RelativeStays DEF UntroubledOK, AsksOK, DbAsRequested
    <2>3. \A c \in Client : client'[c].pc \in {"acquire", "leased"} => client'[c] = client[c]
      BY <1>3
    <2>4. QED
      BY <1>1, <1>6, <2>2, <2>3 DEF UntroubledOK, AsksOK, DbAsRequested
  <1>7. ASSUME used["edits"] = 0, used["faults"] = 0 PROVE UsingOK'
    <2>1. ASSUME NEW c \in Client, client'[c].using # None, registry' = "open"
          PROVE  client'[c].using = entry'[client'[c].entry].state
      <3>1. client'[c] = client[c]
        BY <1>3, <2>1
      <3>2. client[c].entry \in Entry /\ client[c].using = entry[client[c].entry].state
        BY <1>1, <1>7, <2>1, <3>1 DEF UntroubledOK, UsingOK, HoldersOK, ClientOK, ClientRecord, NoClient
      <3>3. CASE client[c].entry = e
        <4>1. h = entry[e].state
          BY <1>1, <2>1, <3>1, <3>2, <3>3 DEF StateOf
        <4>2. QED
          BY <1>1, <1>2, <3>1, <3>2, <3>3, <4>1
      <3>4. CASE client[c].entry # e
        BY <1>2, <3>1, <3>2, <3>4
      <3>5. QED
        BY <3>3, <3>4
    <2>2. QED
      BY <2>1 DEF UsingOK
  <1>8. QED
    BY <1>4, <1>5, <1>6, <1>7, PutsInv

-------------------------------------------------------------------------------
(* Requests: acquire, resolve, release. *)

\* The key of a request is of its root, and without edits of its database.
LEMMA KeyForFacts ==
    ASSUME RegistryTypeOK, NEW r \in Root, NEW ask \in Db \cup {None}
    PROVE  LET k == KeyFor(r, ask)
           IN /\ k \in Key /\ RootOf(k) = r
              /\ KeysOK => /\ k \notin Root => k[2] # config[RootOf(k)]
                           /\ IF k \in Root THEN ask \in {None, config[k]} ELSE ask = k[2]
  <1> DEFINE db == IF ask = None THEN config[r] ELSE ask
  <1> DEFINE k == KeyFor(r, ask)
  <1>1. config[r] \in Db /\ db \in Db
    BY DEF RegistryTypeOK
  <1>2. k = IF db = config[r] /\ (entries[r] # None \/ entries[<<r, db>>] = None)
            THEN r ELSE <<r, db>>
    BY DEF KeyFor
  <1>3. CASE k = r
    <2>1. r # <<r, db>>
      BY <1>1, KeyFacts
    <2>2. ask = None \/ ask = config[r]
      BY <1>2, <1>3, <2>1
    <2>3. QED
      BY <1>3, <2>2, KeyFacts
  <1>4. CASE k # r
    <2>1. k = <<r, db>> /\ (db = config[r] => entries[<<r, db>>] # None)
      BY <1>2, <1>4
    <2>2. k \in Key /\ k \notin Root /\ RootOf(k) = r /\ k[2] = db
      BY <1>1, <2>1, KeyFacts
    <2>3. KeysOK => db # config[r]
      BY <1>1, <2>1 DEF KeysOK
    <2>4. QED
      BY <2>2, <2>3
  <1>5. QED
    BY <1>3, <1>4

\* A step that leaves the tables alone.
LEMMA QuietInv ==
    ASSUME RegistryInv, Spent,
           UNCHANGED <<tables, saved, restore, handle, config, registry, draining>>,
           client' \in [Client -> ClientRecord], \A c \in Client : ClientOK(c)',
           \A f \in Entry : InTable(f) => Holders(f)' = Holders(f),
           used["edits"] = 0 => AsksOK',
           used["edits"] = 0 /\ used["faults"] = 0 => UsingOK'
    PROVE  RegistryInv'
  <1> USE DEF RegistryInv, tables
  <1>1. /\ \A f : InTable(f)' <=> InTable(f)
        /\ \A k : WorkspaceAt(k)' = WorkspaceAt(k) /\ DbOf(k)' = DbOf(k)
        /\ \A h : HasPlace(h)' <=> HasPlace(h)
        /\ \A r : BeingRestored(r)' <=> BeingRestored(r)
        /\ Restored' = Restored
    BY DEF InTable, WorkspaceAt, HasPlace, BeingRestored, Restored, DbOf
  <1>2. RegistryTypeOK'
    BY DEF RegistryTypeOK, Spent
  <1>3. TableOK'
    BY DEF TableOK
  <1>4. TimerOK'
    BY <1>1 DEF TimerOK
  <1>5. RestoreOK'
    BY <1>1 DEF RestoreOK
  <1>6. HoldersOK'
    BY <1>1 DEF HoldersOK
  <1>7. PlacesOK'
    BY <1>1 DEF PlacesOK
  <1>8. KeysOK => KeysOK'
    BY <1>1 DEF KeysOK, OneWorkspacePerDb, RelativeConfig
  <1>9. LeasedOK => LeasedOK'
    BY <1>1 DEF LeasedOK
  <1>10. UntroubledOK'
    BY <1>8, <1>9 DEF UntroubledOK, Spent
  <1>11. QED
    BY <1>2, <1>3, <1>4, <1>5, <1>6, <1>7, <1>10

\* A request waits for the restore of its entry.
LEMMA WaitInv ==
    ASSUME RegistryInv, NEW c \in Client, NEW k \in Key, NEW e \in Entry, NEW new \in ClientRecord,
           client[c].pc = "idle", EntryAt(k, e), entry[e].restoring, Spent,
           new.pc \in {"acquire", "add"}, new.key = k, new.entry = e, new.using = None,
           new.removing => entry[e].removing,
           new.pc = "acquire" /\ used["edits"] = 0 =>
              IF k \in Root THEN new.ask \in {None, config[k]} ELSE new.ask = k[2],
           client' = [client EXCEPT ![c] = new],
           UNCHANGED <<tables, saved, restore, handle, config, registry, draining>>
    PROVE  RegistryInv'
  <1> USE DEF RegistryInv
  <1>1. /\ client \in [Client -> ClientRecord] /\ None \notin Entry /\ None \notin Key
        /\ entries \in [Key -> Entry \cup {None}]
    BY RegistryAssumption DEF RegistryTypeOK
  <1>2. client' \in [Client -> ClientRecord] /\ client'[c] = new
        /\ \A d \in Client \ {c} : client'[d] = client[d]
    BY <1>1
  <1>3. entries[k] = e
    BY EntryFound DEF NoEntry
  <1>4. PICK r \in Root : restore[r].entry = e
    BY DEF RestoreOK
  <1>5. k = r /\ entry[e].leases = 0
    BY <1>1, <1>3, <1>4 DEF RestoreOK
  <1>6. ~entry[e].removing
    <2>1. InTable(e)
      BY <1>3 DEF InTable
    <2>2. entry[e].removing => entry[e].leases > 0
      BY <2>1 DEF TimerOK
    <2>3. QED
      BY <1>5, <2>2
  <1>7. ASSUME NEW d \in Client PROVE ClientOK(d)'
    <2>1. CASE d = c
      <3>1. \A l \in Key : entries[l] = e => l = k
        BY <1>1, <1>3 DEF TableOK
      <3>2. QED
        BY <1>1, <1>2, <1>4, <1>5, <1>6, <2>1, <3>1 DEF ClientOK, tables
    <2>2. CASE d # c
      BY <1>1, <1>2, <2>2, StillClient DEF HoldersOK, tables
    <2>3. QED
      BY <2>1, <2>2
  <1>8. \A f \in Entry : Holders(f)' = Holders(f)
    BY <1>2 DEF Holders
  <1>9. ASSUME used["edits"] = 0 PROVE AsksOK'
    BY <1>2, <1>9 DEF UntroubledOK, AsksOK, DbAsRequested, RelativeConfig, tables
  <1>10. ASSUME used["edits"] = 0, used["faults"] = 0 PROVE UsingOK'
    BY <1>2, <1>10 DEF UntroubledOK, UsingOK, tables
  <1>11. QED
    BY <1>2, <1>7, <1>8, <1>9, <1>10, QuietInv

LEMMA AcquireInv ==
    ASSUME RegistryInv, NEW c \in Client, NEW r \in Root, NEW ask \in Db \cup {None},
           NEW e \in Entry, NEW h \in Handle, Acquire(c, r, ask, e, h)
    PROVE  RegistryInv'
  <1> DEFINE k == KeyFor(r, ask)
  <1>1. /\ client[c].pc = "idle" /\ registry = "open" /\ Spend({"uses"}) /\ EntryAt(k, e)
        /\ UNCHANGED <<saved, restore, config, registry, draining>>
    BY DEF Acquire
  <1>2. Spent
    BY <1>1, SpendSpends DEF RegistryInv
  <1>3. /\ k \in Key
        /\ used["edits"] = 0 => /\ k \notin Root => k[2] # config[RootOf(k)]
                                /\ IF k \in Root THEN ask \in {None, config[k]} ELSE ask = k[2]
    BY KeyForFacts DEF RegistryInv, UntroubledOK
  <1>4. IF entry[e].restoring
        THEN /\ client' = [client EXCEPT ![c] = [NoClient EXCEPT
                              !.pc = "acquire", !.key = k, !.ask = ask, !.entry = e]]
             /\ UNCHANGED <<tables, handle>>
        ELSE Lease(c, k, ask, e, h)
    BY DEF Acquire
  <1> HIDE DEF k
  <1>5. CASE entry[e].restoring
    <2> DEFINE new == [NoClient EXCEPT !.pc = "acquire", !.key = k, !.ask = ask, !.entry = e]
    <2>1. /\ new \in ClientRecord /\ new.pc = "acquire" /\ new.key = k /\ new.ask = ask
          /\ new.entry = e /\ new.using = None /\ new.removing = FALSE
      BY <1>3 DEF NoClient, ClientRecord
    <2>2. client' = [client EXCEPT ![c] = new] /\ UNCHANGED <<tables, handle>>
      BY <1>4, <1>5
    <2> HIDE DEF new
    <2>3. QED
      BY <1>1, <1>2, <1>3, <1>5, <2>1, <2>2, WaitInv
  <1>6. CASE ~entry[e].restoring
    BY <1>1, <1>2, <1>3, <1>4, <1>6, LeaseInv
  <1>7. QED
    BY <1>5, <1>6

\* The entry that a request waited for is not being restored any more, if it is still in
\* the table.
LEMMA WaitIsOver ==
    ASSUME RegistryInv, NEW c \in Client, client[c].pc \in {"acquire", "add"},
           restore[client[c].key].stage = "done", entries[client[c].key] = client[c].entry
    PROVE  /\ client[c].key \in Root /\ client[c].key \in Key /\ client[c].entry \in Entry
           /\ ~entry[client[c].entry].restoring /\ EntryAt(client[c].key, client[c].entry)
           /\ ~client[c].removing
  <1> USE DEF RegistryInv
  <1>1. /\ client[c] \in ClientRecord /\ restore \in [Root -> RestoreRecord]
        /\ entries \in [Key -> Entry \cup {None}] /\ None \notin Entry
    BY RegistryAssumption DEF RegistryTypeOK
  <1>2. /\ client[c].key \in Root /\ client[c].entry \in Entry /\ ~client[c].removing
    BY <1>1 DEF HoldersOK, ClientOK, ClientRecord
  <1>3. client[c].key \in Key
    BY <1>2, KeyFacts
  <1>4. ASSUME entry[client[c].entry].restoring PROVE FALSE
    <2>1. PICK r \in Root : restore[r].entry = client[c].entry
      BY <1>2, <1>4 DEF RestoreOK
    <2>2. BeingRestored(r)
      BY <1>1, <1>2, <2>1 DEF RestoreOK
    <2>3. client[c].key = r
      BY <1>3, <2>1, <2>2 DEF RestoreOK
    <2>4. QED
      BY <2>2, <2>3 DEF BeingRestored
  <1>5. EntryAt(client[c].key, client[c].entry)
    BY <1>1, <1>2 DEF EntryAt
  <1>6. QED
    BY <1>2, <1>3, <1>4, <1>5

LEMMA AcquireResumeInv ==
    ASSUME RegistryInv, NEW c \in Client, NEW h \in Handle, AcquireResume(c, h)
    PROVE  RegistryInv'
  <1> USE DEF RegistryInv
  <1> DEFINE e == client[c].entry
  <1> DEFINE k == client[c].key
  <1>1. /\ client[c].pc = "acquire" /\ restore[k].stage = "done"
        /\ UNCHANGED <<saved, restore, config, registry, draining, used>>
    BY DEF AcquireResume
  <1>2. /\ client \in [Client -> ClientRecord] /\ client[c] \in ClientRecord
        /\ None \notin Entry /\ None \notin Key
    BY RegistryAssumption DEF RegistryTypeOK
  <1>3. Spent
    BY <1>1, SpendSpends
  <1>4. CASE restore[k].err \/ registry # "open" \/ entries[k] # e \/ entry[e].removing
    <2>1. client' = [client EXCEPT ![c] = NoClient] /\ UNCHANGED <<tables, handle>>
      BY <1>4 DEF AcquireResume
    <2>2. NoClient \in ClientRecord /\ NoClient.pc = "idle" /\ NoClient.using = None
      BY DEF NoClient, ClientRecord
    <2>3. client' \in [Client -> ClientRecord] /\ client'[c] = NoClient
          /\ \A d \in Client \ {c} : client'[d] = client[d]
      BY <1>2, <2>1, <2>2
    <2>4. ASSUME NEW d \in Client PROVE ClientOK(d)'
      <3>1. CASE d = c
        BY <2>2, <2>3, <3>1 DEF ClientOK
      <3>2. CASE d # c
        BY <1>1, <1>2, <2>1, <2>3, <3>2, StillClient DEF HoldersOK, tables
      <3>3. QED
        BY <3>1, <3>2
    <2>5. \A f \in Entry : Holders(f)' = Holders(f)
      BY <1>1, <2>2, <2>3 DEF Holders
    <2>6. ASSUME used["edits"] = 0 PROVE AsksOK'
      BY <1>1, <2>1, <2>2, <2>3, <2>6 DEF UntroubledOK, AsksOK, DbAsRequested, RelativeConfig, tables
    <2>7. ASSUME used["edits"] = 0, used["faults"] = 0 PROVE UsingOK'
      BY <1>1, <2>1, <2>2, <2>3, <2>7 DEF UntroubledOK, UsingOK, tables
    <2>8. QED
      BY <1>1, <1>3, <2>1, <2>3, <2>4, <2>5, <2>6, <2>7, QuietInv
  <1>5. CASE ~(restore[k].err \/ registry # "open" \/ entries[k] # e \/ entry[e].removing)
    <2>1. Lease(c, k, client[c].ask, e, h)
      BY <1>5 DEF AcquireResume
    <2>2. k \in Root /\ k \in Key /\ e \in Entry /\ ~entry[e].restoring /\ EntryAt(k, e)
      BY <1>1, <1>5, WaitIsOver
    <2>3. client[c].ask \in Db \cup {None}
      BY <1>2 DEF ClientRecord
    <2>4. used["edits"] = 0 => client[c].ask \in {None, config[k]}
      BY <1>1, <2>2 DEF UntroubledOK, AsksOK
    <2> HIDE DEF k, e
    <2>5. registry = "open" /\ client[c].pc \in {"idle", "acquire"}
      BY <1>1, <1>5
    <2>6. QED
      BY <1>1, <1>3, <2>1, <2>2, <2>3, <2>4, <2>5, LeaseInv
  <1>6. QED
    BY <1>4, <1>5

\* The fields of an entry whose workspace is resolved.
Resolved(rec, h) == Scheduled([rec EXCEPT !.state = h])

LEMMA ResolveFields ==
    ASSUME NEW rec \in EntryRecord, NEW h \in Handle \cup {None}
    PROVE  LET new == Resolved(rec, h)
           IN /\ new \in EntryRecord /\ new.state = h /\ new.leases = rec.leases
              /\ new.restoring = rec.restoring /\ new.explicit = rec.explicit
              /\ new.removing = rec.removing
              /\ IF rec.explicit \/ rec.leases > 0 \/ rec.removing
                 THEN new.epoch = rec.epoch /\ new.timer = rec.timer
                 ELSE new.epoch = rec.epoch + 1 /\ new.timer = TRUE
  <1>1. /\ [rec EXCEPT !.state = h] \in EntryRecord
        /\ [rec EXCEPT !.state = h].state = h
        /\ [rec EXCEPT !.state = h].leases = rec.leases
        /\ [rec EXCEPT !.state = h].restoring = rec.restoring
        /\ [rec EXCEPT !.state = h].explicit = rec.explicit
        /\ [rec EXCEPT !.state = h].removing = rec.removing
        /\ [rec EXCEPT !.state = h].epoch = rec.epoch
        /\ [rec EXCEPT !.state = h].timer = rec.timer
    BY DEF EntryRecord
  <1>2. QED
    BY ZenonT(60), <1>1, Rescheduled DEF Resolved

\* What a request leased, it resolves: its key has not changed.
LEMMA SameKey ==
    ASSUME RegistryInv, NEW c \in Client, client[c].pc = "leased", registry = "open",
           used["edits"] = 0
    PROVE  KeyFor(RootOf(client[c].key), client[c].ask) = client[c].key
  <1> USE DEF RegistryInv
  <1>1. /\ client[c] \in ClientRecord /\ None \notin Entry /\ None \notin Key /\ None \notin Db
        /\ config \in [Root -> Db]
    BY RegistryAssumption DEF RegistryTypeOK
  <1>2. /\ client[c].key \in Key /\ client[c].entry \in Entry
        /\ entries[client[c].key] = client[c].entry
    BY <1>1 DEF HoldersOK, ClientOK, ClientRecord
  <1>3. KeysOK /\ IF client[c].key \in Root THEN client[c].ask \in {None, config[client[c].key]}
                                            ELSE client[c].ask = client[c].key[2]
    BY DEF UntroubledOK, AsksOK
  <1>4. CASE client[c].key \in Root
    <2>1. RootOf(client[c].key) = client[c].key
      BY <1>4, KeyFacts
    <2>2. QED
      BY <1>1, <1>2, <1>3, <1>4, <2>1 DEF KeyFor
  <1>5. CASE client[c].key \notin Root
    <2>1. /\ client[c].ask \in Db /\ client[c].key = <<RootOf(client[c].key), client[c].ask>>
          /\ RootOf(client[c].key) \in Root
      BY <1>2, <1>3, <1>5, KeyFacts
    <2>2. client[c].ask # config[RootOf(client[c].key)]
      <3>1. entries[<<RootOf(client[c].key), client[c].ask>>] # None
        BY <1>1, <1>2, <2>1
      <3>2. \A q \in Root, db \in Db : entries[<<q, db>>] # None => db # config[q]
        BY <1>3 DEF KeysOK
      <3>3. QED
        BY <2>1, <3>1, <3>2
    <2>3. QED
      BY <1>1, <2>1, <2>2 DEF KeyFor
  <1>6. QED
    BY <1>4, <1>5

\* The holder of a lease that now uses the workspace it resolved.
Uses(d, r, ask, h) ==
    /\ client[d].pc = "leased" /\ RootOf(client[d].key) = r /\ client[d].ask = ask
    /\ client'[d] = [client[d] EXCEPT !.using = h]

LEMMA ResolveInv ==
    ASSUME RegistryInv, NEW r \in Root, NEW ask \in Db \cup {None}, NEW e \in Entry,
           NEW h \in Handle, Resolve(r, ask, e, h), registry = "open", Spent,
           UNCHANGED <<saved, restore, config, registry, draining>>,
           client' \in [Client -> ClientRecord],
           \A d \in Client : client'[d] = client[d] \/ Uses(d, r, ask, h)
    PROVE  RegistryInv'
  <1> USE DEF RegistryInv
  <1> DEFINE k == KeyFor(r, ask)
  <1> DEFINE rec == Resolved(entry[e], h)
  <1>1. /\ entry \in [Entry -> EntryRecord] /\ entry[e] \in EntryRecord
        /\ entries \in [Key -> Entry \cup {None}] /\ handle \in [Handle -> HandleRecord]
        /\ client \in [Client -> ClientRecord] /\ None \notin Entry /\ None \notin Key
        /\ None \notin Handle /\ None \notin Db
        /\ entry[e].leases \in Nat /\ entry[e].epoch \in Nat
    BY RegistryAssumption DEF RegistryTypeOK, EntryRecord
  <1>2. /\ k \in Key
        /\ used["edits"] = 0 => /\ k \notin Root => k[2] # config[RootOf(k)]
                                /\ IF k \in Root THEN ask \in {None, config[k]} ELSE ask = k[2]
    BY KeyForFacts DEF UntroubledOK
  <1>3. EntryAt(k, e) /\ ~entry[e].restoring
    BY DEF Resolve
  <1>4. \A d \in Client : /\ client'[d].pc = client[d].pc /\ client'[d].key = client[d].key
                          /\ client'[d].entry = client[d].entry /\ client'[d].ask = client[d].ask
                          /\ client'[d].removing = client[d].removing
                          /\ client'[d].using # client[d].using =>
                                client'[d].using = h /\ client[d].pc = "leased" /\ Uses(d, r, ask, h)
    BY <1>1 DEF Uses, ClientRecord
  <1>5. \A f \in Entry : Holders(f)' = Holders(f)
    BY <1>4 DEF Holders
  <1>6. ask # None /\ used["edits"] = 0 /\ RelativeConfig => ask = DbOf(k)
    BY <1>2, KeyFacts DEF RelativeConfig
  <1>7. \A d \in Client : Uses(d, r, ask, h) /\ used["edits"] = 0 => client[d].entry = entries[k]
    BY <1>1, SameKey DEF Uses, HoldersOK, ClientOK
  <1>8. CASE entry[e].removing
    <2>1. h = entry[e].state /\ h # None /\ UNCHANGED <<tables, handle>>
      BY <1>8 DEF Resolve
    <2>2. entries[k] = e
      BY <1>2, <1>3, <1>8, EntryFound DEF NoEntry
    <2>3. WorkspaceAt(k) = h
      BY <1>1, <2>1, <2>2 DEF WorkspaceAt
    <2> HIDE DEF k
    <2>4. handle[h].life = "open"
      BY <1>2, <2>3 DEF PlacesOK, HasPlace
    <2>5. used["edits"] = 0 => handle[h].db = DbOf(k)
      BY <1>1, <1>2, <2>3 DEF UntroubledOK, KeysOK
    <2>6. ASSUME NEW d \in Client PROVE ClientOK(d)'
      <3>1. CASE client'[d] = client[d]
        BY <1>1, <2>1, <3>1, StillClient DEF HoldersOK, tables
      <3>2. CASE Uses(d, r, ask, h)
        <4>1. /\ client'[d].using = h /\ client[d].pc = "leased" /\ client'[d].pc = "leased"
          BY <1>1, <1>4, <3>2 DEF Uses, ClientRecord
        <4>2. QED
          BY <1>1, <1>4, <2>1, <2>4, <4>1 DEF ClientOK, HoldersOK, tables
      <3>3. QED
        BY <3>1, <3>2
    <2>7. ASSUME used["edits"] = 0 PROVE AsksOK'
      <3>1. DbAsRequested'
        BY <1>4, <1>6, <2>1, <2>5, <2>7 DEF UntroubledOK, AsksOK, DbAsRequested, RelativeConfig, Uses
      <3>2. QED
        BY <1>4, <2>7, <3>1 DEF UntroubledOK, AsksOK
    <2>8. ASSUME used["edits"] = 0, used["faults"] = 0 PROVE UsingOK'
      <3>1. ASSUME NEW d \in Client, client'[d].using # None
            PROVE  client'[d].using = entry'[client'[d].entry].state
        <4>1. CASE client'[d].using = client[d].using
          BY <1>4, <2>1, <2>8, <3>1, <4>1 DEF UntroubledOK, UsingOK, tables
        <4>2. CASE client'[d].using # client[d].using
          BY <1>4, <1>7, <2>1, <2>2, <2>8, <4>2 DEF tables
        <4>3. QED
          BY <4>1, <4>2
      <3>2. QED
        BY <3>1 DEF UsingOK
    <2>9. QED
      BY <1>5, <2>1, <2>6, <2>7, <2>8, QuietInv
  <1>9. CASE ~entry[e].removing
    <2>1. StateOf(e, k, h) /\ Becomes(e, rec) /\ Touch(e) /\ entries' = [entries EXCEPT ![k] = e]
      BY <1>9 DEF Resolve, Resolved
    <2>2. /\ rec \in EntryRecord /\ rec.state = h /\ rec.leases = entry[e].leases
          /\ rec.restoring = entry[e].restoring /\ rec.explicit = entry[e].explicit
          /\ rec.removing = entry[e].removing
          /\ IF entry[e].explicit \/ entry[e].leases > 0 \/ entry[e].removing
             THEN rec.epoch = entry[e].epoch /\ rec.timer = entry[e].timer
             ELSE rec.epoch = entry[e].epoch + 1 /\ rec.timer = TRUE
      BY <1>1, ResolveFields
    <2> HIDE DEF k, rec
    <2>3. entry[e].explicit \/ entry[e].leases > 0 => ~entry[e].timer
      <3>1. entry[e].timer => ~entry[e].explicit /\ entry[e].leases = 0
        BY DEF TimerOK
      <3>2. QED
        BY <1>1, <3>1
    <2>4. Puts(k, e, h, rec)
      <3>1. Retimed(e, rec)
        BY <1>1, <1>9, <2>1, <2>2, <2>3 DEF Retimed, Evictable
      <3>2. Wanted(rec)
        BY <1>1, <1>9, <2>2 DEF Wanted
      <3>3. QED
        BY <1>2, <1>3, <2>1, <2>2, <3>1, <3>2 DEF Puts
    <2>5. /\ entry'[e] = rec /\ \A f \in Entry \ {e} : entry'[f] = entry[f]
      BY <1>1, <2>1 DEF Becomes
    <2>6. /\ entries'[k] = e /\ \A l \in Key \ {k} : entries'[l] = entries[l]
          /\ entries[k] \in {None, e} /\ \A f \in Entry \ {e} : InTable(f)' <=> InTable(f)
      BY <2>4, PutsTables
    <2>7. handle'[h].life = "open"
      BY <2>4, PutsPlaces
    <2>8. ASSUME NEW d \in Client PROVE ClientOK(d)'
      <3>1. CASE client'[d] = client[d]
        BY <2>4, <3>1, PutsClients DEF HoldersOK
      <3>2. CASE Uses(d, r, ask, h)
        <4>1. /\ client'[d].using = h /\ client[d].pc = "leased" /\ client'[d].pc = "leased"
          BY <1>1, <1>4, <3>2 DEF Uses, ClientRecord
        <4>2. /\ client[d].key \in Key /\ client[d].entry \in Entry
              /\ entries[client[d].key] = client[d].entry
              /\ \A l \in Key : entries[l] = client[d].entry => l = client[d].key
          BY <1>1, <4>1 DEF HoldersOK, ClientOK, ClientRecord
        <4>3. entries[k] = None => client[d].entry # e
          BY <2>4, PutsTables
        <4>4. entries'[client[d].key] = client[d].entry
          BY <1>1, <2>6, <4>2
        <4>5. \A l \in Key : entries'[l] = client[d].entry => l = client[d].key
          BY <1>1, <2>6, <4>2, <4>3
        <4>6. QED
          BY <1>1, <1>4, <2>7, <4>1, <4>2, <4>4, <4>5 DEF ClientOK
      <3>3. QED
        BY <3>1, <3>2
    <2>9. ASSUME NEW f \in Entry, InTable(f)' PROVE entry'[f].leases = Cardinality(Holders(f)')
      <3>1. CASE f = e
        BY <1>5, <2>2, <2>4, <2>5, <3>1, PutsCounted
      <3>2. CASE f # e
        BY <1>5, <2>5, <2>6, <2>9, <3>2 DEF HoldersOK
      <3>3. QED
        BY <3>1, <3>2
    <2>10. saved' = {q \in Root : entries'[q] # None /\ entry'[entries'[q]].explicit}
      BY <2>2, <2>4, PutsSaved
    <2>11. ASSUME used["edits"] = 0, KeysOK' PROVE AsksOK'
      <3>1. /\ handle'[h].db = DbOf(k)
            /\ \A g \in Handle : handle[g].life # "none" => handle'[g].db = handle[g].db
        BY <1>2, <2>4, <2>11, PutsKeys DEF UntroubledOK
      <3>2. ASSUME RelativeConfig', NEW d \in Client, client'[d].using # None, client'[d].ask # None
            PROVE  handle'[client'[d].using].db = client'[d].ask
        <4>1. CASE client'[d].using = client[d].using
          <5>1. client[d].using \in Handle /\ handle[client[d].using].life # "none"
            BY <1>1, <3>2, <4>1 DEF HoldersOK, ClientOK, ClientRecord
          <5>2. QED
            BY <1>1, <1>4, <2>11, <3>1, <3>2, <4>1, <5>1, RelativeStays DEF UntroubledOK, AsksOK, DbAsRequested
        <4>2. CASE client'[d].using # client[d].using
          BY <1>1, <1>4, <1>6, <2>11, <3>1, <3>2, <4>2, RelativeStays DEF Uses
        <4>3. QED
          BY <4>1, <4>2
      <3>3. QED
        BY <1>4, <2>11, <3>2 DEF UntroubledOK, AsksOK, DbAsRequested
    <2>12. ASSUME used["edits"] = 0, used["faults"] = 0 PROVE UsingOK'
      <3>1. ASSUME NEW d \in Client, client'[d].using # None
            PROVE  client'[d].using = entry'[client'[d].entry].state
        <4>1. CASE client'[d].using = client[d].using
          <5>1. client[d].entry \in Entry /\ client[d].using = entry[client[d].entry].state
            BY <1>1, <2>12, <3>1, <4>1 DEF UntroubledOK, UsingOK, HoldersOK, ClientOK, ClientRecord, NoClient
          <5>2. CASE client[d].entry = e
            <6>1. h = entry[e].state
              BY <2>1, <3>1, <4>1, <5>1, <5>2 DEF StateOf
            <6>2. QED
              BY <1>4, <2>2, <2>5, <4>1, <5>1, <5>2, <6>1
          <5>3. CASE client[d].entry # e
            BY <1>4, <2>5, <4>1, <5>1, <5>3
          <5>4. QED
            BY <5>2, <5>3
        <4>2. CASE client'[d].using # client[d].using
          <5>1. client[d].entry = entries[k] /\ client[d].entry # None
            BY <1>4, <1>7, <2>12, <4>2 DEF HoldersOK, ClientOK
          <5>2. QED
            BY <1>4, <2>2, <2>5, <2>6, <4>2, <5>1
        <4>3. QED
          BY <4>1, <4>2
      <3>2. QED
        BY <3>1 DEF UsingOK
    <2>13. k \notin Root => (used["edits"] = 0 => k[2] # config[RootOf(k)])
      BY <1>2
    <2>14. QED
      BY <2>4, <2>8, <2>9, <2>10, <2>11, <2>12, <2>13, PutsInv
  <1>10. QED
    BY <1>8, <1>9

LEMMA ResolveLeasedInv ==
    ASSUME RegistryInv, NEW c \in Client, NEW e \in Entry, NEW h \in Handle, ResolveLeased(c, e, h)
    PROVE  RegistryInv'
  <1>1. /\ client \in [Client -> ClientRecord] /\ client[c].pc = "leased" /\ registry = "open"
        /\ Resolve(RootOf(client[c].key), client[c].ask, e, h)
        /\ client' = [client EXCEPT ![c].using = h]
        /\ UNCHANGED <<saved, restore, config, registry, draining, used>>
    BY DEF ResolveLeased, RegistryInv, RegistryTypeOK
  <1>2. client[c] \in ClientRecord /\ client[c].key \in Key /\ client[c].ask \in Db \cup {None}
    BY <1>1 DEF ClientRecord, RegistryInv, HoldersOK, ClientOK
  <1>3. RootOf(client[c].key) \in Root
    BY <1>2, KeyFacts
  <1>4. client' \in [Client -> ClientRecord]
    BY <1>1 DEF ClientRecord
  <1>5. \A d \in Client : client'[d] = client[d] \/ Uses(d, RootOf(client[c].key), client[c].ask, h)
    BY <1>1 DEF Uses
  <1>6. Spent
    BY <1>1, SpendSpends DEF RegistryInv
  <1>7. QED
    BY <1>1, <1>2, <1>3, <1>4, <1>5, <1>6, ResolveInv

LEMMA ResolveConfirmationInv ==
    ASSUME RegistryInv, NEW g \in Handle, NEW e \in Entry, NEW h \in Handle,
           ResolveConfirmation(g, e, h)
    PROVE  RegistryInv'
  <1>1. /\ handle[g].life \in {"open", "closing"} /\ registry = "open" /\ Spend({"uses"})
        /\ UNCHANGED <<saved, restore, client, config, registry, draining>>
    BY DEF ResolveConfirmation
  <1>2. PICK ask \in {handle[g].db, None} : Resolve(RootOf(handle[g].key), ask, e, h)
    BY DEF ResolveConfirmation
  <1>3. handle[g].key \in Key /\ ask \in Db \cup {None}
    <2>1. handle[g] \in HandleRecord /\ handle[g].key # None
      BY <1>1 DEF RegistryInv, RegistryTypeOK, PlacesOK
    <2>2. QED
      BY <1>2, <2>1 DEF HandleRecord
  <1>4. RootOf(handle[g].key) \in Root
    BY <1>3, KeyFacts
  <1>5. Spent /\ client' \in [Client -> ClientRecord]
    BY <1>1, SpendSpends DEF RegistryInv, RegistryTypeOK
  <1>6. QED
    BY <1>1, <1>2, <1>3, <1>4, <1>5, ResolveInv

\* The fields of an entry with one lease less.
OneLess(rec) == [rec EXCEPT !.leases = @ - 1]

LEMMA OneLessFields ==
    ASSUME NEW rec \in EntryRecord, rec.leases # 0
    PROVE  LET new == OneLess(rec)
           IN /\ new \in EntryRecord /\ new.state = rec.state /\ new.leases = rec.leases - 1
              /\ new.leases \in Nat /\ new.leases < rec.leases
              /\ new.restoring = rec.restoring /\ new.explicit = rec.explicit
              /\ new.removing = rec.removing /\ new.epoch = rec.epoch /\ new.timer = rec.timer
  <1>1. rec.leases \in Nat
    BY DEF EntryRecord
  <1>2. PICK n \in Nat : n = rec.leases - 1
    BY <1>1
  <1>3. [rec EXCEPT !.leases = @ - 1] = [rec EXCEPT !.leases = n]
    BY <1>2 DEF EntryRecord
  <1>4. /\ [rec EXCEPT !.leases = n] \in EntryRecord
        /\ [rec EXCEPT !.leases = n].leases = n
        /\ [rec EXCEPT !.leases = n].state = rec.state
        /\ [rec EXCEPT !.leases = n].restoring = rec.restoring
        /\ [rec EXCEPT !.leases = n].explicit = rec.explicit
        /\ [rec EXCEPT !.leases = n].removing = rec.removing
        /\ [rec EXCEPT !.leases = n].epoch = rec.epoch
        /\ [rec EXCEPT !.leases = n].timer = rec.timer
    BY DEF EntryRecord
  <1>5. QED
    BY <1>1, <1>2, <1>3, <1>4 DEF OneLess

LEMMA ReleaseInv ==
    ASSUME RegistryInv, NEW c \in Client, Release(c)
    PROVE  RegistryInv'
  <1> USE DEF RegistryInv
  <1>1. /\ client[c].pc = "leased" /\ client' = [client EXCEPT ![c] = NoClient]
        /\ UNCHANGED <<saved, restore, config, registry, draining, used>>
    BY DEF Release
  <1>2. /\ client \in [Client -> ClientRecord] /\ client[c] \in ClientRecord
        /\ entries \in [Key -> Entry \cup {None}] /\ entry \in [Entry -> EntryRecord]
        /\ None \notin Entry /\ None \notin Key
    BY RegistryAssumption DEF RegistryTypeOK
  <1>3. PICK e \in Entry, k \in Key : e = client[c].entry /\ k = client[c].key
    BY <1>1, <1>2 DEF HoldersOK, ClientOK, ClientRecord
  <1>12. /\ entry[e] \in EntryRecord
         /\ \A l \in Key : entries[l] = e => l = k
         /\ registry = "open" => entries[k] = e
    BY <1>1, <1>2, <1>3 DEF HoldersOK, ClientOK
  <1> DEFINE rec == OneLess(entry[e])
  <1>4. NoClient \in ClientRecord /\ NoClient.pc = "idle" /\ NoClient.using = None /\ NoClient.entry = None
    BY DEF NoClient, ClientRecord
  <1>5. client' \in [Client -> ClientRecord] /\ client'[c] = NoClient
        /\ \A d \in Client \ {c} : client'[d] = client[d]
    BY <1>1, <1>2, <1>4
  <1>6. Spent
    BY <1>1, SpendSpends
  <1>7. c \in Holders(e) /\ Holders(e)' = Holders(e) \ {c}
    BY <1>1, <1>3, <1>4, <1>5 DEF Holders
  <1>8. Cardinality(Holders(e)') = Cardinality(Holders(e)) - 1
    BY ZenonT(60), <1>3, <1>7, HoldersCounted, FS_RemoveElement
  <1>9. CASE entries[k] # e \/ entry[e].leases = 0
    <2>1. UNCHANGED <<tables, handle>>
      BY <1>3, <1>9 DEF Release
    <2>2. ~InTable(e)
      <3>1. InTable(e) => entries[k] = e /\ entry[e].leases = Cardinality(Holders(e))
        BY <1>2, <1>12 DEF InTable, HoldersOK
      <3>2. Cardinality(Holders(e)) # 0
        BY <1>3, <1>7, HoldersCounted
      <3>3. QED
        BY <1>9, <3>1, <3>2
    <2>3. ASSUME NEW d \in Client PROVE ClientOK(d)'
      <3>1. CASE d = c
        BY <1>4, <1>5, <3>1 DEF ClientOK
      <3>2. CASE d # c
        BY <1>1, <1>2, <1>5, <2>1, <3>2, StillClient DEF HoldersOK, tables
      <3>3. QED
        BY <3>1, <3>2
    <2>4. \A f \in Entry : InTable(f) => Holders(f)' = Holders(f)
      BY <1>3, <1>4, <1>5, <2>2 DEF Holders
    <2>5. ASSUME used["edits"] = 0 PROVE AsksOK'
      BY <1>1, <1>4, <1>5, <2>1, <2>5 DEF UntroubledOK, AsksOK, DbAsRequested, RelativeConfig, tables
    <2>6. ASSUME used["edits"] = 0, used["faults"] = 0 PROVE UsingOK'
      BY <1>1, <1>4, <1>5, <2>1, <2>6 DEF UntroubledOK, UsingOK, tables
    <2>7. QED
      BY <1>1, <1>5, <1>6, <2>1, <2>3, <2>4, <2>5, <2>6, QuietInv
  <1>10. CASE ~(entries[k] # e \/ entry[e].leases = 0)
    <2>1. entries[k] = e /\ entry[e].leases # 0 /\ InTable(e)
      BY <1>10 DEF InTable
    <2>2. /\ rec \in EntryRecord /\ rec.state = entry[e].state /\ rec.leases = entry[e].leases - 1
          /\ rec.leases \in Nat /\ rec.leases < entry[e].leases /\ entry[e].leases \in Nat
          /\ rec.restoring = entry[e].restoring /\ rec.explicit = entry[e].explicit
          /\ rec.removing = entry[e].removing /\ rec.epoch = entry[e].epoch
          /\ rec.timer = entry[e].timer /\ rec.epoch \in Nat
      BY <1>12, <2>1, OneLessFields DEF EntryRecord
    <2>3. IF rec.leases = 0 /\ rec.removing
          THEN /\ Becomes(e, rec) /\ Touch(e)
               /\ entries' = [entries EXCEPT ![k] = None]
               /\ Closing(rec.state, "closing")
          ELSE /\ Becomes(e, Scheduled(rec)) /\ Touch(e)
               /\ UNCHANGED <<entries, handle>>
      BY <1>3, <1>10 DEF Release, OneLess
    <2>4. ~entry[e].timer /\ (entry[e].removing => ~entry[e].explicit)
      BY <2>1 DEF TimerOK
    <2>5. rec.leases = Cardinality(Holders(e)')
      BY <1>3, <1>8, <2>1, <2>2 DEF HoldersOK
    <2> HIDE DEF rec
    <2>6. CASE rec.leases = 0 /\ rec.removing
      <3>1. Becomes(e, rec) /\ Touch(e) /\ Retimed(e, rec)
        BY <2>2, <2>3, <2>4, <2>6 DEF Retimed
      <3>2. Takes(k, e, rec)
        BY <1>1, <1>3, <2>1, <2>2, <2>3, <2>6, <3>1 DEF Takes, Becomes
      <3>3. TimerOK' /\ due' \subseteq Entry \X Nat /\ stale' \subseteq due'
        <4>1. \A f \in Entry : InTable(f)' <=> InTable(f) /\ f # e
          BY <3>2, TakesTables
        <4>2. QED
          BY <1>3, <3>1, <4>1, RetimedTimers
      <3>4. saved' = {r \in Root : entries'[r] # None /\ entry'[entries'[r]].explicit}
        BY <1>1, <2>2, <2>4, <2>6, <3>2, TakesSaved
      <3>5. Holders(e) = {c}
        <4>1. Holders(e)' = {}
          <5>1. IsFiniteSet(Holders(e)) /\ IsFiniteSet(Holders(e)')
            BY <1>3, <1>7, HoldersCounted, FS_Subset
          <5>2. QED
            BY <2>5, <2>6, <5>1, FS_EmptySet
        <4>2. QED
          BY <1>7, <4>1
      <3>6. \A d \in Client : \/ client'[d] = client[d] /\ ~(client[d].pc = "leased" /\ client[d].entry = e)
                              \/ client'[d] = NoClient /\ client[d].entry = e
        BY <1>3, <1>5, <3>5 DEF Holders
      <3>7. QED
        BY <1>5, <1>6, <3>2, <3>3, <3>4, <3>6, TakesInv
    <2>7. CASE ~(rec.leases = 0 /\ rec.removing)
      <3> DEFINE new == Scheduled(rec)
      <3>1. /\ new \in EntryRecord /\ new.state = rec.state /\ new.restoring = rec.restoring
            /\ new.explicit = rec.explicit /\ new.leases = rec.leases /\ new.removing = rec.removing
            /\ IF rec.explicit \/ rec.leases > 0 \/ rec.removing
               THEN new.epoch = rec.epoch /\ new.timer = rec.timer
               ELSE new.epoch = rec.epoch + 1 /\ new.timer = TRUE
        BY <2>2, Rescheduled
      <3>2. Becomes(e, new) /\ Touch(e) /\ UNCHANGED <<entries, handle>>
        BY <2>3, <2>7
      <3> HIDE DEF new
      <3>3. rec.leases > 0 \/ (rec.leases = 0 /\ ~rec.removing)
        BY <2>2, <2>7
      <3>4. Retimed(e, new)
        BY <2>2, <2>4, <3>1, <3>2, <3>3 DEF Retimed, Evictable
      <3>5. TurnsEntry(k, e, new)
        BY <1>1, <1>3, <2>1, <2>2, <3>1, <3>2, <3>3, <3>4 DEF TurnsEntry, Wanted
      <3>6. new.leases <= entry[e].leases /\ new.leases = Cardinality(Holders(e)')
        BY <2>2, <2>5, <3>1
      <3>7. saved' = {r \in Root : entries[r] # None /\ entry'[entries[r]].explicit}
        BY <1>1, <2>2, <3>1, <3>5, TurnsSaved
      <3>8. \A d \in Client : \/ client'[d] = client[d]
                              \/ client'[d] = NoClient /\ (client[d].pc = "leased" => client[d].entry = e)
        BY <1>3, <1>5
      <3>9. QED
        BY <1>5, <1>6, <3>5, <3>6, <3>7, <3>8, TurnsInv
    <2>8. QED
      BY <2>6, <2>7
  <1>11. QED
    BY <1>9, <1>10

-------------------------------------------------------------------------------
(* Evictions and the workspace commands. *)

\* A step that leaves entries and requests alone, and opens nothing.
LEMMA KeptInv ==
    ASSUME RegistryInv, RegistryTypeOK', TimerOK', PlacesOK', Spent,
           UNCHANGED <<entries, entry, saved, restore, config, client>>,
           registry' = "open" <=> registry = "open", registry' # "closing" => draining' = {},
           \A h \in Handle : /\ handle'[h].life = "open" => handle[h].life = "open"
                             /\ handle[h].life # "none" => /\ handle'[h].life # "none"
                                                           /\ handle'[h].key = handle[h].key
                                                           /\ handle'[h].db = handle[h].db
    PROVE  RegistryInv'
  <1> USE DEF RegistryInv
  <1>1. /\ \A f : InTable(f)' <=> InTable(f)
        /\ \A k : WorkspaceAt(k)' = WorkspaceAt(k)
        /\ \A r : BeingRestored(r)' <=> BeingRestored(r)
        /\ \A f : Holders(f)' = Holders(f)
    BY DEF InTable, WorkspaceAt, BeingRestored, Holders
  <1>2. TableOK'
    BY DEF TableOK
  <1>3. RestoreOK'
    BY <1>1 DEF RestoreOK
  <1>4. ASSUME NEW c \in Client PROVE ClientOK(c)'
    <2>1. client[c].using # None => client[c].using \in Handle
      BY DEF RegistryTypeOK, ClientRecord
    <2>2. QED
      BY <2>1 DEF HoldersOK, ClientOK
  <1>5. HoldersOK'
    BY <1>1, <1>4 DEF HoldersOK
  <1>6. UntroubledOK'
    <2>1. LeasedOK => LeasedOK'
      BY <1>1 DEF LeasedOK
    <2>2. QED
      BY <1>1, <2>1, KeptUntroubled
  <1>7. QED
    BY <1>2, <1>3, <1>5, <1>6

LEMMA EvictInv ==
    ASSUME RegistryInv, NEW x \in due, Evict(x)
    PROVE  RegistryInv'
  <1> USE DEF RegistryInv
  <1> DEFINE mine == {k \in Key : entries[k] = x[1]}
  <1>1. /\ due' = due \ {x} /\ stale' = stale \ {x}
        /\ UNCHANGED <<entry, saved, restore, client, config, registry, draining, used>>
    BY DEF Evict
  <1>2. /\ entry \in [Entry -> EntryRecord] /\ entries \in [Key -> Entry \cup {None}]
        /\ due \subseteq Entry \X Nat /\ stale \subseteq due /\ None \notin Entry
    BY RegistryAssumption DEF RegistryTypeOK
  <1>3. PICK e \in Entry : x[1] = e /\ x[2] \in Nat /\ x = <<e, x[2]>>
    BY <1>2
  <1>4. due' \subseteq Entry \X Nat /\ stale' \subseteq due'
    BY <1>1, <1>2
  <1>5. entry[e] \in EntryRecord /\ entry[e].leases \in Nat /\ entry[e].epoch \in Nat
    BY <1>2 DEF EntryRecord
  <1>6. CASE \/ mine = {} \/ registry # "open" \/ entry[e].epoch # x[2]
             \/ entry[e].explicit \/ entry[e].leases > 0 \/ entry[e].removing
    <2>1. UNCHANGED <<entries, handle>>
      BY <1>3, <1>6 DEF Evict
    <2>2. \A f : InTable(f)' <=> InTable(f)
      BY <2>1 DEF InTable
    <2>3. ASSUME NEW f \in Entry, InTable(f)
          PROVE  \/ entry[f].explicit \/ entry[f].leases > 0
                 \/ entry[f].timer /\ <<f, entry[f].epoch>> \in due'
      <3>1. CASE <<f, entry[f].epoch>> = x
        <4>1. f = e /\ x[2] = entry[e].epoch
          BY <1>3, <3>1
        <4>2. mine # {} /\ registry = "open"
          BY <1>2, <1>3, <2>3, <4>1 DEF InTable, TableOK
        <4>3. entry[e].removing => entry[e].leases > 0
          BY <2>3, <4>1 DEF TimerOK
        <4>4. QED
          BY <1>6, <4>1, <4>2, <4>3
      <3>2. CASE <<f, entry[f].epoch>> # x
        BY <1>1, <2>3, <3>2 DEF TimerOK
      <3>3. QED
        BY <3>1, <3>2
    <2>4. TimerOK'
      BY <1>1, <2>2, <2>3 DEF TimerOK
    <2>5. RegistryTypeOK'
      BY <1>1, <1>4, <2>1 DEF RegistryTypeOK
    <2>6. PlacesOK'
      BY <1>1, <2>1 DEF PlacesOK, HasPlace, WorkspaceAt
    <2>7. registry' # "closing" => draining' = {}
      BY <1>1 DEF TableOK
    <2>8. Spent
      BY <1>1, SpendSpends
    <2>9. QED
      BY <1>1, <2>1, <2>4, <2>5, <2>6, <2>7, <2>8, KeptInv
  <1>7. CASE ~(\/ mine = {} \/ registry # "open" \/ entry[e].epoch # x[2]
               \/ entry[e].explicit \/ entry[e].leases > 0 \/ entry[e].removing)
    <2>1. PICK k \in Key : entries[k] = e
      BY <1>3, <1>7
    <2>2. mine = {k}
      BY <1>2, <1>3, <2>1 DEF TableOK
    <2>3. /\ entries' = [l \in Key |-> IF l \in mine THEN None ELSE entries[l]]
          /\ Closing(entry[e].state, "closing")
      BY <1>3, <1>7 DEF Evict
    <2>4. entries' = [entries EXCEPT ![k] = None]
      BY <1>2, <2>2, <2>3
    <2>5. Takes(k, e, entry[e])
      <3>1. entry' = [entry EXCEPT ![e] = entry[e]] /\ entry[e].leases <= entry[e].leases
        BY <1>1, <1>2, <1>5
      <3>2. QED
        BY <1>1, <1>5, <2>1, <2>3, <2>4, <3>1 DEF Takes
    <2>6. \A f \in Entry : InTable(f)' <=> InTable(f) /\ f # e
      BY <2>5, TakesTables
    <2>7. TimerOK'
      <3>1. ASSUME NEW f \in Entry, InTable(f)'
            PROVE  \/ entry[f].explicit \/ entry[f].leases > 0
                   \/ entry[f].timer /\ <<f, entry[f].epoch>> \in due'
        <4>1. InTable(f) /\ <<f, entry[f].epoch>> # x
          BY <1>3, <2>6, <3>1
        <4>2. QED
          BY <1>1, <4>1 DEF TimerOK
      <3>2. QED
        BY <1>1, <2>6, <3>1 DEF TimerOK
    <2>8. saved' = {r \in Root : entries'[r] # None /\ entry'[entries'[r]].explicit}
      BY <1>1, <1>7, <2>5, TakesSaved
    <2>9. \A c \in Client : ~(client[c].pc = "leased" /\ client[c].entry = e)
      <3>1. Cardinality(Holders(e)) = 0
        BY <1>5, <1>7, <2>1 DEF HoldersOK, InTable
      <3>2. QED
        BY <3>1, HoldersCounted DEF Holders
    <2>10. Spent /\ client' \in [Client -> ClientRecord]
      BY <1>1, SpendSpends DEF RegistryTypeOK
    <2>11. QED
      BY <1>1, <1>4, <2>5, <2>7, <2>8, <2>9, <2>10, TakesInv
  <1>8. QED
    BY <1>6, <1>7

LEMMA RemoveRootInv ==
    ASSUME RegistryInv, NEW r \in Root, RemoveRoot(r)
    PROVE  RegistryInv'
  <1> USE DEF RegistryInv
  <1>1. /\ entry \in [Entry -> EntryRecord] /\ entries \in [Key -> Entry \cup {None}]
        /\ None \notin Entry /\ r \in Key
        /\ UNCHANGED <<restore, client, config, registry, draining>>
    BY RegistryAssumption, KeyFacts DEF RegistryTypeOK, RemoveRoot
  <1>2. PICK e \in Entry : entries[r] = e
    BY <1>1 DEF RemoveRoot
  <1>3. /\ entry[e] \in EntryRecord /\ entry[e].leases \in Nat /\ entry[e].epoch \in Nat
        /\ InTable(e) /\ entry[e].explicit /\ Touch(e)
    BY <1>1, <1>2 DEF EntryRecord, InTable, RemoveRoot
  <1>4. entry[e].leases = Cardinality(Holders(e)) /\ Holders(e)' = Holders(e)
    BY <1>1, <1>3 DEF HoldersOK, Holders
  <1>5. client' \in [Client -> ClientRecord] /\ \A c \in Client : client'[c] = client[c]
    BY <1>1 DEF RegistryTypeOK
  <1>6. CASE /\ Spend({"adds"})
             /\ Becomes(e, Unscheduled([entry[e] EXCEPT !.explicit = FALSE, !.removing = TRUE]))
             /\ IF entry[e].leases = 0
                THEN entries' = [entries EXCEPT ![r] = None] /\ Closing(entry[e].state, "closing")
                ELSE UNCHANGED <<entries, handle>>
             /\ Persist
    <2> DEFINE old == [entry[e] EXCEPT !.explicit = FALSE, !.removing = TRUE]
    <2> DEFINE rec == Unscheduled(old)
    <2>1. /\ old \in EntryRecord /\ old.state = entry[e].state /\ old.leases = entry[e].leases
          /\ old.restoring = entry[e].restoring /\ old.explicit = FALSE /\ old.removing = TRUE
          /\ old.epoch = entry[e].epoch
      BY <1>3 DEF EntryRecord
    <2> HIDE DEF old
    <2>2. /\ rec \in EntryRecord /\ rec.state = entry[e].state /\ rec.leases = entry[e].leases
          /\ rec.restoring = entry[e].restoring /\ rec.explicit = FALSE /\ rec.removing = TRUE
          /\ rec.epoch = entry[e].epoch + 1 /\ rec.timer = FALSE
      BY ZenonT(60), <2>1, Rescheduled
    <2>3. Becomes(e, rec)
      BY <1>6 DEF old
    <2> HIDE DEF rec
    <2>4. Retimed(e, rec)
      BY <1>3, <2>2, <2>3 DEF Retimed
    <2>5. Spent
      BY <1>6, SpendSpends
    <2>6. CASE entry[e].leases = 0
      <3>1. Takes(r, e, rec)
        <4>1. entries' = [entries EXCEPT ![r] = None] /\ Closing(entry[e].state, "closing")
          BY <1>6, <2>6
        <4>2. entry' = [entry EXCEPT ![e] = rec] /\ rec.leases <= entry[e].leases
          BY <1>3, <2>2, <2>3 DEF Becomes
        <4>3. QED
          BY <1>1, <1>2, <2>2, <4>1, <4>2 DEF Takes
      <3>2. \A f \in Entry : InTable(f)' <=> InTable(f) /\ f # e
        BY <3>1, TakesTables
      <3>3. TimerOK' /\ due' \subseteq Entry \X Nat /\ stale' \subseteq due'
        BY <2>4, <3>2, RetimedTimers
      <3>4. \A c \in Client : ~(client[c].pc = "leased" /\ client[c].entry = e)
        BY <1>4, <2>6, HoldersCounted DEF Holders
      <3>5. saved' = {q \in Root : entries'[q] # None /\ entry'[entries'[q]].explicit}
        BY <1>6 DEF Persist
      <3>6. QED
        BY <1>5, <2>5, <3>1, <3>3, <3>4, <3>5, TakesInv
    <2>7. CASE entry[e].leases # 0
      <3>1. UNCHANGED <<entries, handle>> /\ entry[e].leases > 0
        BY <1>3, <1>6, <2>7
      <3>2. TurnsEntry(r, e, rec)
        BY <1>1, <1>2, <2>2, <2>4, <3>1 DEF TurnsEntry, Wanted
      <3>3. saved' = {q \in Root : entries[q] # None /\ entry'[entries[q]].explicit}
        BY <1>6, <3>1 DEF Persist
      <3>4. rec.leases <= entry[e].leases /\ rec.leases = Cardinality(Holders(e)')
        BY <1>3, <1>4, <2>2
      <3>5. QED
        BY <1>5, <2>5, <3>2, <3>3, <3>4, TurnsInv
    <2>8. QED
      BY <2>6, <2>7
  <1>7. CASE /\ Spend({"adds", "faults"})
             /\ Becomes(e, Unscheduled(entry[e]))
             /\ UNCHANGED <<entries, handle, saved>>
    <2> DEFINE rec == Unscheduled(entry[e])
    <2>1. /\ rec \in EntryRecord /\ rec.state = entry[e].state /\ rec.leases = entry[e].leases
          /\ rec.restoring = entry[e].restoring /\ rec.explicit = entry[e].explicit
          /\ rec.removing = entry[e].removing /\ rec.epoch = entry[e].epoch + 1 /\ rec.timer = FALSE
      BY <1>3, Rescheduled
    <2>2. Becomes(e, rec)
      BY <1>7
    <2> HIDE DEF rec
    <2>3. ~entry[e].removing
      BY <1>3 DEF TimerOK
    <2>4. Retimed(e, rec)
      BY <1>3, <2>1, <2>2, <2>3 DEF Retimed
    <2>5. TurnsEntry(r, e, rec)
      BY <1>1, <1>2, <1>3, <1>7, <2>1, <2>3, <2>4 DEF TurnsEntry, Wanted
    <2>6. saved' = {q \in Root : entries[q] # None /\ entry'[entries[q]].explicit}
      BY <1>7, <2>1, <2>5, TurnsSaved
    <2>7. rec.leases <= entry[e].leases /\ rec.leases = Cardinality(Holders(e)')
      BY <1>3, <1>4, <2>1
    <2>8. Spent
      BY <1>7, SpendSpends
    <2>9. QED
      BY <1>5, <2>5, <2>6, <2>7, <2>8, TurnsInv
  <1>8. QED
    BY <1>2, <1>6, <1>7 DEF RemoveRoot

\* What a failed save does to the workspaces: the one of the entry is closed, or one
\* that was opened for nothing.
Shuts(e) ==
    /\ handle' \in [Handle -> HandleRecord]
    /\ \A g \in Handle : handle'[g].life = "open" <=> handle[g].life = "open" /\ g # entry[e].state
    /\ \A g \in Handle : handle[g].life # "none" => /\ handle'[g].life # "none"
                                                    /\ handle'[g].key = handle[g].key
                                                    /\ handle'[g].db = handle[g].db
    /\ \A g \in Handle : handle'[g].life # "twice"
    /\ \A g \in Handle : handle'[g].life # "none" => handle'[g].key # None

LEMMA UndoShuts ==
    ASSUME RegistryTypeOK, PlacesOK, NEW r \in Root, NEW e \in Entry, NEW h \in Handle,
           entry[e].state # None => entries[r] = e,
           IF entry[e].state # None THEN h = entry[e].state /\ Closing(h, "closing")
           ELSE /\ New(FreshHandles, h)
                /\ handle' = [handle EXCEPT ![h] = [life |-> "closing", key |-> r, db |-> DbOf(r)]]
    PROVE  Shuts(e)
  <1>1. /\ handle \in [Handle -> HandleRecord] /\ DbOf(r) \in Db /\ r \in Key /\ r # None
        /\ None \notin Handle /\ None \notin Key /\ None \notin Entry
    BY RegistryAssumption, KeyFacts DEF RegistryTypeOK
  <1>2. CASE entry[e].state # None
    <2>1. /\ h = entry[e].state
          /\ handle' = [handle EXCEPT ![h].life = IF @ = "open" THEN "closing" ELSE "twice"]
      BY <1>1, <1>2 DEF Closing
    <2>2. WorkspaceAt(r) = h
      BY <1>1, <1>2, <2>1 DEF WorkspaceAt
    <2>3. handle[h].life = "open"
      BY <1>1, <2>2 DEF PlacesOK, HasPlace
    <2>4. /\ handle'[h].life = "closing" /\ handle'[h].key = handle[h].key /\ handle'[h].db = handle[h].db
          /\ \A g \in Handle \ {h} : handle'[g] = handle[g]
      BY <1>1, <2>1, <2>3 DEF HandleRecord
    <2>5. handle' \in [Handle -> HandleRecord]
      BY <1>1, <2>1, <2>3 DEF HandleRecord
    <2>6. \A g \in Handle : handle'[g].life # "twice"
      BY <2>4 DEF PlacesOK
    <2>7. \A g \in Handle : handle'[g].life # "none" => handle'[g].key # None
      BY <2>3, <2>4 DEF PlacesOK
    <2>8. QED
      BY <2>1, <2>3, <2>4, <2>5, <2>6, <2>7 DEF Shuts
  <1>3. CASE entry[e].state = None
    <2> DEFINE new == [life |-> "closing", key |-> r, db |-> DbOf(r)]
    <2>1. h \in FreshHandles /\ handle' = [handle EXCEPT ![h] = new]
      BY <1>3 DEF New
    <2>2. handle[h].life = "none"
      BY <2>1 DEF FreshHandles
    <2>3. new \in HandleRecord /\ new.life = "closing" /\ new.key = r
      BY <1>1 DEF HandleRecord
    <2> HIDE DEF new
    <2>4. handle'[h] = new /\ \A g \in Handle \ {h} : handle'[g] = handle[g]
      BY <1>1, <2>1
    <2>5. \A g \in Handle : handle'[g].life # "twice"
      BY <2>3, <2>4 DEF PlacesOK
    <2>6. \A g \in Handle : handle'[g].life # "none" => handle'[g].key # None
      BY <1>1, <2>3, <2>4 DEF PlacesOK
    <2>7. handle' \in [Handle -> HandleRecord]
      BY <1>1, <2>1, <2>3
    <2>8. QED
      BY <1>1, <1>3, <2>2, <2>3, <2>4, <2>5, <2>6, <2>7 DEF Shuts
  <1>4. QED
    BY <1>2, <1>3

\* An entry of the table loses its workspace, after a failure.
LEMMA DropsInv ==
    ASSUME RegistryInv, NEW r \in Root, NEW e \in Entry, NEW rec, entries[r] = e, Shuts(e),
           ~entry[e].restoring, entry[e].state = None \/ restore[r].stage = "done",
           Retimed(e, rec), Wanted(rec), rec.state = None, rec.leases = entry[e].leases,
           rec.explicit = entry[e].explicit,
           Spent, used'["faults"] # 0,
           UNCHANGED <<entries, saved, restore, config, registry, draining>>,
           client' \in [Client -> ClientRecord],
           \A c \in Client : \/ client'[c] = client[c]
                             \/ client'[c] = NoClient /\ client[c].pc # "leased"
    PROVE  RegistryInv'
  <1> USE DEF RegistryInv
  <1>1. /\ entry' = [entry EXCEPT ![e] = rec] /\ rec \in EntryRecord
        /\ rec.restoring = entry[e].restoring
        /\ entry \in [Entry -> EntryRecord] /\ entries \in [Key -> Entry \cup {None}]
        /\ None \notin Entry /\ None \notin Handle /\ r \in Key
        /\ restore \in [Root -> RestoreRecord]
    BY RegistryAssumption, KeyFacts DEF Retimed, Becomes, RegistryTypeOK
  <1>2. entry'[e] = rec /\ \A f \in Entry \ {e} : entry'[f] = entry[f]
    BY <1>1
  <1>3. registry = "open" /\ draining = {}
    BY <1>1 DEF TableOK
  <1>4. /\ \A l \in Key : entries[l] = e => l = r
        /\ \A f \in Entry : InTable(f)' <=> InTable(f)
        /\ \A q \in Root : BeingRestored(q)' <=> BeingRestored(q)
    BY <1>1 DEF TableOK, InTable, BeingRestored
  <1>5. /\ WorkspaceAt(r) = entry[e].state /\ WorkspaceAt(r)' = None
        /\ \A l \in Key \ {r} : WorkspaceAt(l)' = WorkspaceAt(l)
    BY <1>1, <1>2, <1>4 DEF WorkspaceAt
  <1>6. TimerOK' /\ due' \subseteq Entry \X Nat /\ stale' \subseteq due'
        /\ entry' \in [Entry -> EntryRecord]
    BY <1>4, RetimedTimers
  <1>7. RegistryTypeOK'
    BY <1>6 DEF RegistryTypeOK, Spent, Shuts
  <1>8. TableOK'
    <2>1. \A f \in Entry : entry'[f].explicit = entry[f].explicit
      BY <1>2
    <2>2. \A q \in Root : entries[q] \in Entry \cup {None}
      BY <1>1, KeyFacts
    <2>3. saved' = {q \in Root : entries'[q] # None /\ entry'[entries'[q]].explicit}
      BY <1>3, <2>1, <2>2 DEF TableOK
    <2>4. QED
      BY <1>3, <2>3 DEF TableOK
  <1>9. RestoreOK'
    <2>1. ASSUME NEW q \in Root, BeingRestored(q)
          PROVE  /\ entry'[restore[q].entry].restoring /\ entry'[restore[q].entry].state = None
                 /\ entry'[restore[q].entry].leases = 0
      <3>1. restore[q].entry \in Entry /\ restore[q].entry # e
        BY <1>1, <2>1 DEF RestoreOK, RestoreRecord
      <3>2. QED
        BY <1>2, <2>1, <3>1 DEF RestoreOK
    <2>2. ASSUME NEW q \in Root, entries[q] # None, restore[q].stage # "done",
                 entry'[entries[q]].leases > 0
          PROVE  entry'[entries[q]].state # None
      <3>1. q \in Key /\ entries[q] \in Entry
        BY <1>1, <2>2, KeyFacts
      <3>2. CASE entries[q] = e
        BY <1>1, <1>2, <1>4, <2>2, <3>1, <3>2 DEF RestoreOK
      <3>3. CASE entries[q] # e
        BY <1>2, <2>2, <3>1, <3>3 DEF RestoreOK
      <3>4. QED
        BY <3>2, <3>3
    <2>3. \A f \in Entry : entry'[f].restoring => entry[f].restoring
      BY <1>1, <1>2
    <2>4. QED
      BY <1>4, <2>1, <2>2, <2>3 DEF RestoreOK
  <1>10. /\ NoClient.pc = "idle" /\ NoClient.using = None
         /\ \A c \in Client : client'[c].pc # "idle" => client'[c] = client[c]
    BY DEF NoClient
  <1>11. ASSUME NEW c \in Client PROVE ClientOK(c)'
    <2>1. CASE client'[c] = client[c]
      BY <2>1, StillClient DEF HoldersOK, RegistryTypeOK, Shuts
    <2>2. CASE client'[c] = NoClient
      BY <1>10, <2>2 DEF ClientOK
    <2>3. QED
      BY <2>1, <2>2
  <1>12. ASSUME NEW f \in Entry, InTable(f)' PROVE entry'[f].leases = Cardinality(Holders(f)')
    <2>1. Holders(f)' = Holders(f) /\ entry'[f].leases = entry[f].leases
      BY <1>2, <1>10 DEF Holders
    <2>2. QED
      BY <1>4, <1>12, <2>1 DEF HoldersOK
  <1>13. PlacesOK'
    <2>1. ASSUME NEW g \in Handle PROVE handle'[g].life = "open" <=> HasPlace(g)'
      <3>1. g # None
        BY <1>1
      <3>2. CASE g = entry[e].state
        <4>1. \A l \in Key : WorkspaceAt(l)' # g
          BY <1>1, <1>5, <3>1, <3>2 DEF PlacesOK
        <4>2. \A q \in Root : restore[q].state # g
          BY <1>1, <1>5, <3>1, <3>2 DEF PlacesOK
        <4>3. QED
          BY <1>3, <3>2, <4>1, <4>2 DEF HasPlace, Shuts
      <3>3. CASE g # entry[e].state
        <4>1. \A l \in Key : WorkspaceAt(l)' = g <=> WorkspaceAt(l) = g
          BY <1>5, <3>1, <3>3
        <4>2. HasPlace(g)' <=> HasPlace(g)
          BY <4>1 DEF HasPlace
        <4>3. QED
          BY <3>3, <4>2 DEF Shuts, PlacesOK
      <3>4. QED
        BY <3>2, <3>3
    <2>2. \A l, m \in Key : WorkspaceAt(l)' # None /\ WorkspaceAt(l)' = WorkspaceAt(m)' => l = m
      BY <1>5 DEF PlacesOK
    <2>3. \A q \in Root : restore[q].state # None => \A l \in Key : WorkspaceAt(l)' # restore[q].state
      BY <1>5 DEF PlacesOK
    <2>4. /\ \A g \in Handle : handle'[g].life # "twice"
          /\ \A g \in Handle : handle'[g].life # "none" => handle'[g].key # None
      BY DEF Shuts
    <2>5. /\ \A q, p \in Root : restore[q].state # None /\ restore[q].state = restore[p].state => q = p
          /\ \A q \in Root : restore[q].state # None => restore[q].state \notin draining
      BY DEF PlacesOK
    <2>6. QED
      BY <2>1, <2>2, <2>3, <2>4, <2>5 DEF PlacesOK
  <1>14. UntroubledOK'
    <2>1. \A l \in Key : entries'[l] \in {entries[l], None} /\ WorkspaceAt(l)' \in {WorkspaceAt(l), None}
      BY <1>5
    <2>2. \A g \in Handle : /\ handle'[g].life = "open" => handle[g].life = "open"
                            /\ handle[g].life # "none" => /\ handle'[g].key = handle[g].key
                                                          /\ handle'[g].db = handle[g].db
      BY DEF Shuts
    <2>3. QED
      BY <2>1, <2>2, KeptUntroubled
  <1>15. QED
    BY <1>6, <1>7, <1>8, <1>9, <1>11, <1>12, <1>13, <1>14 DEF HoldersOK

\* The fields of an entry whose explicit mark is undone.
Undone(rec, removing, h) ==
    LET new == Unscheduled([rec EXCEPT !.removing = removing, !.state = h])
    IN IF rec.timer THEN Scheduled(new) ELSE new

LEMMA UndoneFields ==
    ASSUME NEW rec \in EntryRecord, NEW removing \in BOOLEAN, NEW h \in Handle \cup {None},
           rec.timer => Evictable(rec), ~rec.explicit, removing => rec.removing,
           rec.leases > 0 \/ rec.timer
    PROVE  LET new == Undone(rec, removing, h)
           IN /\ new \in EntryRecord /\ new.state = h /\ new.leases = rec.leases
              /\ new.restoring = rec.restoring /\ new.explicit = rec.explicit
              /\ new.epoch > rec.epoch /\ Wanted(new) /\ (new.timer => Evictable(new))
  <1> DEFINE old == [rec EXCEPT !.removing = removing, !.state = h]
  <1> DEFINE mid == Unscheduled(old)
  <1>1. /\ old \in EntryRecord /\ old.state = h /\ old.leases = rec.leases
        /\ old.restoring = rec.restoring /\ old.explicit = rec.explicit
        /\ old.removing = removing /\ old.epoch = rec.epoch
    BY DEF EntryRecord
  <1> HIDE DEF old
  <1>2. /\ mid \in EntryRecord /\ mid.state = h /\ mid.leases = rec.leases
        /\ mid.restoring = rec.restoring /\ mid.explicit = rec.explicit
        /\ mid.removing = removing /\ mid.epoch = rec.epoch + 1 /\ mid.timer = FALSE
    BY <1>1, Rescheduled
  <1>3. Undone(rec, removing, h) = IF rec.timer THEN Scheduled(mid) ELSE mid
    BY DEF Undone, old
  <1> HIDE DEF mid
  <1>4. rec.epoch \in Nat /\ rec.leases \in Nat
    BY DEF EntryRecord
  <1>5. CASE rec.timer
    <2>1. ~rec.explicit /\ rec.leases = 0 /\ ~removing
      BY <1>5 DEF Evictable
    <2> DEFINE new == Scheduled(mid)
    <2>2. /\ new \in EntryRecord /\ new.state = h /\ new.leases = rec.leases
          /\ new.restoring = rec.restoring /\ new.explicit = rec.explicit
          /\ new.removing = removing /\ new.epoch = mid.epoch + 1 /\ new.timer = TRUE
      <3>1. ~(mid.explicit \/ mid.leases > 0 \/ mid.removing)
        BY <1>2, <2>1
      <3>2. QED
        BY <1>2, <3>1, Rescheduled
    <2> HIDE DEF new
    <2>3. Wanted(new) /\ Evictable(new) /\ new.epoch > rec.epoch
      BY <1>2, <1>4, <2>1, <2>2 DEF Wanted, Evictable
    <2>4. Undone(rec, removing, h) = new
      BY <1>3, <1>5 DEF new
    <2>5. QED
      BY <2>2, <2>3, <2>4
  <1>6. CASE ~rec.timer
    <2>1. Undone(rec, removing, h) = mid
      BY <1>3, <1>6
    <2>2. Wanted(mid) /\ mid.epoch > rec.epoch
      BY <1>2, <1>4, <1>6 DEF Wanted
    <2>3. QED
      BY <1>2, <2>1, <2>2
  <1>7. QED
    BY <1>5, <1>6

LEMMA AddUndoInv ==
    ASSUME RegistryInv, NEW r \in Root, NEW e \in Entry, NEW h \in Handle,
           NEW had \in BOOLEAN, NEW removing \in BOOLEAN, AddUndo(r, e, h, had, removing),
           Touch(e), registry = "open", EntryAt(r, e), ~entry[e].restoring, ~entry[e].explicit,
           had => entry[e].state # None,
           ~had => entry[e].state = None \/ restore[r].stage = "done",
           removing => entry[e].removing,
           Spent, used'["faults"] # 0, UNCHANGED <<saved, restore, config, registry, draining>>,
           client' \in [Client -> ClientRecord], entries[r] = None => client' = client,
           \A c \in Client : \/ client'[c] = client[c]
                             \/ client'[c] = NoClient /\ client[c].pc # "leased"
    PROVE  RegistryInv'
  <1> USE DEF RegistryInv
  <1>1. /\ entry \in [Entry -> EntryRecord] /\ entry[e] \in EntryRecord
        /\ entries \in [Key -> Entry \cup {None}] /\ r \in Key /\ None \notin Entry
        /\ due \subseteq Entry \X Nat /\ stale \subseteq due
        /\ entry[e].leases \in Nat /\ entry[e].epoch \in Nat /\ entry[e].state \in Handle \cup {None}
    BY RegistryAssumption, KeyFacts DEF RegistryTypeOK, EntryRecord
  <1>2. entries' = entries
    BY DEF AddUndo
  <1>3. entry[e].state # None => entries[r] = e
    BY <1>1, EntryFound DEF NoEntry
  <1>4. ~had => Shuts(e)
    BY <1>3, UndoShuts DEF AddUndo
  <1>5. CASE entries[r] # None
    <2>1. entries[r] = e /\ InTable(e)
      BY <1>1, <1>5 DEF EntryAt, InTable
    <2> DEFINE left == IF had THEN entry[e].state ELSE None
    <2> DEFINE rec == Undone(entry[e], removing, left)
    <2>2. left \in Handle \cup {None}
      BY <1>1
    <2>3. Becomes(e, rec)
      BY <1>5 DEF AddUndo, Undone
    <2>4. entry[e].timer => Evictable(entry[e])
      BY DEF TimerOK, Evictable
    <2>5. entry[e].leases > 0 \/ entry[e].timer
      BY <2>1 DEF TimerOK
    <2>6. /\ rec \in EntryRecord /\ rec.state = left /\ rec.leases = entry[e].leases
          /\ rec.restoring = entry[e].restoring /\ rec.explicit = entry[e].explicit
          /\ rec.epoch > entry[e].epoch /\ Wanted(rec) /\ (rec.timer => Evictable(rec))
      BY <1>1, <2>2, <2>4, <2>5, UndoneFields
    <2> HIDE DEF rec
    <2>7. Retimed(e, rec)
      BY <2>3, <2>6 DEF Retimed
    <2>8. CASE had
      <3>1. handle' = handle /\ rec.state = entry[e].state
        BY <2>6, <2>8 DEF AddUndo
      <3>2. TurnsEntry(r, e, rec)
        BY <1>1, <1>2, <2>1, <2>6, <2>7, <3>1 DEF TurnsEntry
      <3>3. saved' = {q \in Root : entries[q] # None /\ entry'[entries[q]].explicit}
        BY <2>6, <3>2, TurnsSaved
      <3>4. NoClient.pc = "idle"
        BY DEF NoClient
      <3>5. Holders(e)' = Holders(e)
        BY <3>4 DEF Holders
      <3>6. rec.leases <= entry[e].leases /\ rec.leases = Cardinality(Holders(e)')
        BY <1>1, <2>1, <2>6, <3>5 DEF HoldersOK
      <3>7. QED
        BY <3>2, <3>3, <3>6, TurnsInv
    <2>9. CASE ~had
      BY <1>2, <1>4, <2>1, <2>6, <2>7, <2>9, DropsInv
    <2>10. QED
      BY <2>8, <2>9
  <1>6. CASE entries[r] = None
    <2>1. entry[e] = NoEntry /\ NoEntry.state = None /\ NoEntry.epoch = 0 /\ NoEntry.timer = FALSE
      BY <1>1, <1>6, EntryFound DEF NoEntry
    <2>2. ~had /\ Shuts(e) /\ UNCHANGED <<entry, due>>
      BY <1>4, <1>6, <2>1 DEF AddUndo
    <2>3. stale' = stale
      <3>1. ASSUME NEW x \in due, x[1] = e PROVE FALSE
        <4>1. x[2] \in Nat /\ x[2] <= 0 /\ x[2] # 0
          BY <1>1, <2>1, <3>1 DEF TimerOK
        <4>2. QED
          BY <4>1
      <3>2. QED
        BY <1>1, <2>2, <3>1 DEF Touch
    <2>4. client' = client
      BY <1>6
    <2>5. \A g \in Handle : handle'[g].life = "open" <=> handle[g].life = "open"
      BY <2>1, <2>2, RegistryAssumption DEF Shuts
    <2>6. RegistryTypeOK'
      BY <1>2, <2>2, <2>3, <2>4 DEF RegistryTypeOK, Spent, Shuts
    <2>7. TimerOK'
      BY <1>2, <2>2, <2>3 DEF TimerOK, InTable
    <2>8. PlacesOK'
      <3>1. \A g : HasPlace(g)' <=> HasPlace(g)
        BY <1>2, <2>2 DEF HasPlace, WorkspaceAt
      <3>2. \A l : WorkspaceAt(l)' = WorkspaceAt(l)
        BY <1>2, <2>2 DEF WorkspaceAt
      <3>3. \A g \in Handle : handle'[g].life = "open" <=> HasPlace(g)'
        BY <2>5, <3>1 DEF PlacesOK
      <3>4. /\ \A g \in Handle : handle'[g].life # "twice"
            /\ \A g \in Handle : handle'[g].life # "none" => handle'[g].key # None
        BY <2>2 DEF Shuts
      <3>5. QED
        BY <3>2, <3>3, <3>4 DEF PlacesOK
    <2>9. registry' # "closing" => draining' = {}
      BY DEF TableOK
    <2>10. QED
      BY <1>2, <2>2, <2>4, <2>5, <2>6, <2>7, <2>8, <2>9, KeptInv DEF Shuts
  <1>7. QED
    BY <1>5, <1>6

\* The part of Add that follows the wait.
LEMMA AddToInv ==
    ASSUME RegistryInv, NEW r \in Root, NEW e \in Entry, NEW h \in Handle,
           NEW had \in BOOLEAN, NEW removing \in BOOLEAN, NEW fails \in BOOLEAN,
           AddTo(r, e, h, had, removing, fails),
           registry = "open", EntryAt(r, e), ~entry[e].restoring,
           had => entry[e].state # None,
           ~had => entry[e].state = None \/ restore[r].stage = "done",
           removing => entry[e].removing,
           Spent, fails => used'["faults"] # 0, UNCHANGED <<restore, config, registry, draining>>,
           client' \in [Client -> ClientRecord], entries[r] = None => client' = client,
           \A c \in Client : \/ client'[c] = client[c]
                             \/ client'[c] = NoClient /\ client[c].pc # "leased"
    PROVE  RegistryInv'
  <1> USE DEF RegistryInv
  <1>1. /\ entry \in [Entry -> EntryRecord] /\ entry[e] \in EntryRecord
        /\ entries \in [Key -> Entry \cup {None}] /\ r \in Key /\ None \notin Entry
        /\ entry[e].leases \in Nat /\ entry[e].epoch \in Nat /\ Touch(e)
    BY RegistryAssumption, KeyFacts DEF RegistryTypeOK, EntryRecord, AddTo
  <1>2. CASE entry[e].explicit
    <2> DEFINE rec == [entry[e] EXCEPT !.state = h]
    <2>1. /\ rec \in EntryRecord /\ rec.state = h /\ rec.leases = entry[e].leases
          /\ rec.restoring = entry[e].restoring /\ rec.explicit = entry[e].explicit
          /\ rec.removing = entry[e].removing /\ rec.epoch = entry[e].epoch
          /\ rec.timer = entry[e].timer
      BY <1>1 DEF EntryRecord
    <2>2. StateOf(e, r, h) /\ Becomes(e, rec) /\ UNCHANGED <<entries, saved>>
      BY <1>2 DEF AddTo
    <2> HIDE DEF rec
    <2>3. entries[r] = e
      BY <1>2, EntryFound, <1>1 DEF NoEntry
    <2>4. ~entry[e].timer /\ ~entry[e].removing
      BY <1>2 DEF TimerOK
    <2>5. Retimed(e, rec)
      BY <1>1, <2>1, <2>2, <2>4 DEF Retimed
    <2>6. entries' = [entries EXCEPT ![r] = e]
      BY <1>1, <2>2, <2>3
    <2>7. Puts(r, e, h, rec)
      BY <1>1, <1>2, <2>1, <2>2, <2>4, <2>5, <2>6 DEF Puts, Wanted
    <2>8. saved' = {q \in Root : entries'[q] # None /\ entry'[entries'[q]].explicit}
      BY <2>1, <2>2, <2>7, PutsSaved
    <2>9. QED
      BY <2>1, <2>7, <2>8, PutsQuietInv
  <1>3. CASE ~entry[e].explicit /\ fails
    <2>1. AddUndo(r, e, h, had, removing) /\ UNCHANGED saved
      BY <1>3 DEF AddTo
    <2>2. QED
      BY <1>1, <1>3, <2>1, AddUndoInv
  <1>4. CASE ~entry[e].explicit /\ ~fails
    <2> DEFINE old == [entry[e] EXCEPT !.state = h, !.explicit = TRUE, !.removing = FALSE]
    <2> DEFINE rec == Unscheduled(old)
    <2>1. /\ old \in EntryRecord /\ old.state = h /\ old.leases = entry[e].leases
          /\ old.restoring = entry[e].restoring /\ old.explicit = TRUE
          /\ old.removing = FALSE /\ old.epoch = entry[e].epoch
      BY <1>1 DEF EntryRecord
    <2> HIDE DEF old
    <2>2. /\ rec \in EntryRecord /\ rec.state = h /\ rec.leases = entry[e].leases
          /\ rec.restoring = entry[e].restoring /\ rec.explicit = TRUE
          /\ rec.removing = FALSE /\ rec.epoch = entry[e].epoch + 1 /\ rec.timer = FALSE
      <3>1. /\ rec \in EntryRecord /\ rec.state = old.state /\ rec.leases = old.leases
            /\ rec.restoring = old.restoring /\ rec.explicit = old.explicit
            /\ rec.removing = old.removing /\ rec.epoch = old.epoch + 1 /\ rec.timer = FALSE
        BY <2>1, Rescheduled
      <3>2. QED
        BY <2>1, <3>1
    <2>3. /\ StateOf(e, r, h) /\ Becomes(e, rec) /\ entries' = [entries EXCEPT ![r] = e] /\ Persist
      BY <1>4 DEF AddTo, old
    <2> HIDE DEF rec
    <2>4. Retimed(e, rec)
      BY <1>1, <2>2, <2>3 DEF Retimed
    <2>5. Puts(r, e, h, rec)
      BY <1>1, <2>2, <2>3, <2>4 DEF Puts, Wanted
    <2>6. saved' = {q \in Root : entries'[q] # None /\ entry'[entries'[q]].explicit}
      BY <2>3 DEF Persist
    <2>7. QED
      BY <2>2, <2>5, <2>6, PutsQuietInv
  <1>5. QED
    BY <1>2, <1>3, <1>4

LEMMA AddInv ==
    ASSUME RegistryInv, NEW c \in Client, NEW r \in Root, NEW e \in Entry, NEW h \in Handle,
           Add(c, r, e, h)
    PROVE  RegistryInv'
  <1>1. /\ client[c].pc = "idle" /\ registry = "open" /\ EntryAt(r, e) /\ r \in Key
        /\ UNCHANGED <<restore, config, registry, draining>>
    BY KeyFacts DEF Add
  <1>2. entry[e] \in EntryRecord /\ client \in [Client -> ClientRecord]
    BY DEF RegistryInv, RegistryTypeOK
  <1>3. CASE entry[e].state = None /\ entry[e].restoring
    <2> DEFINE new == [NoClient EXCEPT !.pc = "add", !.key = r, !.entry = e,
                                       !.removing = entry[e].removing]
    <2>1. /\ new \in ClientRecord /\ new.pc = "add" /\ new.key = r /\ new.entry = e
          /\ new.using = None /\ new.removing = entry[e].removing
      BY <1>1, <1>2 DEF NoClient, ClientRecord, EntryRecord
    <2>2. /\ Spend({"adds"}) /\ client' = [client EXCEPT ![c] = new]
          /\ UNCHANGED <<tables, handle, saved>>
      BY <1>3 DEF Add
    <2> HIDE DEF new
    <2>3. Spent
      BY <2>2, SpendSpends DEF RegistryInv
    <2>4. QED
      BY <1>1, <1>3, <2>1, <2>2, <2>3, WaitInv
  <1>4. CASE ~(entry[e].state = None /\ entry[e].restoring)
    <2>1. client' = client
      BY <1>4 DEF Add
    <2>2. PICK fails \in BOOLEAN :
             /\ Spend(Costs("adds", fails))
             /\ AddTo(r, e, h, entry[e].state # None, entry[e].removing, fails)
      BY <1>4 DEF Add
    <2>3. Spent /\ (fails => used'["faults"] # 0)
      BY <2>2, SpendSpends DEF RegistryInv, Costs
    <2>4. ~entry[e].restoring
      <3>1. ASSUME entry[e].restoring PROVE entry[e].state = None
        <4>1. PICK q \in Root : restore[q].entry = e
          BY <3>1 DEF RegistryInv, RestoreOK
        <4>2. QED
          BY <4>1, RegistryAssumption DEF RegistryInv, RestoreOK
      <3>2. QED
        BY <1>4, <3>1
    <2>5. PICK had \in BOOLEAN, removing \in BOOLEAN :
             had = (entry[e].state # None) /\ removing = entry[e].removing
      BY <1>2 DEF EntryRecord
    <2>6. AddTo(r, e, h, had, removing, fails)
      BY <2>2, <2>5
    <2>7. client' \in [Client -> ClientRecord] /\ \A d \in Client : client'[d] = client[d]
      BY <1>2, <2>1
    <2>8. QED
      BY <1>1, <2>1, <2>3, <2>4, <2>5, <2>6, <2>7, AddToInv
  <1>5. QED
    BY <1>3, <1>4

LEMMA AddResumeInv ==
    ASSUME RegistryInv, NEW c \in Client, NEW h \in Handle, AddResume(c, h)
    PROVE  RegistryInv'
  <1> USE DEF RegistryInv
  <1>1. /\ client[c].pc = "add" /\ restore[client[c].key].stage = "done"
        /\ client' = [client EXCEPT ![c] = NoClient]
        /\ UNCHANGED <<restore, config, registry, draining>>
    BY DEF AddResume
  <1>2. /\ client \in [Client -> ClientRecord] /\ client[c] \in ClientRecord
        /\ None \notin Entry /\ None \notin Key
    BY RegistryAssumption DEF RegistryTypeOK
  <1>3. PICK r \in Root, e \in Entry : r = client[c].key /\ e = client[c].entry
    BY <1>1, <1>2 DEF HoldersOK, ClientOK, ClientRecord
  <1>4. NoClient \in ClientRecord /\ NoClient.pc = "idle" /\ NoClient.using = None
    BY DEF NoClient, ClientRecord
  <1>5. client' \in [Client -> ClientRecord] /\ client'[c] = NoClient
        /\ \A d \in Client \ {c} : client'[d] = client[d]
    BY <1>1, <1>2, <1>4
  <1>6. CASE restore[r].err \/ registry # "open" \/ entries[r] # e
    <2>1. UNCHANGED <<tables, handle, saved, used>>
      BY <1>3, <1>6 DEF AddResume
    <2>2. ASSUME NEW d \in Client PROVE ClientOK(d)'
      <3>1. CASE d = c
        BY <1>4, <1>5, <3>1 DEF ClientOK
      <3>2. CASE d # c
        BY <1>1, <1>2, <1>5, <2>1, <3>2, StillClient DEF HoldersOK, tables
      <3>3. QED
        BY <3>1, <3>2
    <2>3. \A f \in Entry : Holders(f)' = Holders(f)
      BY <1>1, <1>4, <1>5 DEF Holders
    <2>4. ASSUME used["edits"] = 0 PROVE AsksOK'
      BY <1>1, <1>4, <1>5, <2>1, <2>4 DEF UntroubledOK, AsksOK, DbAsRequested, RelativeConfig, tables
    <2>5. ASSUME used["edits"] = 0, used["faults"] = 0 PROVE UsingOK'
      BY <1>1, <1>4, <1>5, <2>1, <2>5 DEF UntroubledOK, UsingOK, tables
    <2>6. QED
      BY <1>1, <1>5, <2>1, <2>2, <2>3, <2>4, <2>5, QuietInv, SpendSpends
  <1>7. CASE ~(restore[r].err \/ registry # "open" \/ entries[r] # e)
    <2>1. PICK fails \in BOOLEAN :
             /\ IF fails THEN Spend({"faults"}) ELSE UNCHANGED used
             /\ AddTo(r, e, h, FALSE, client[c].removing, fails)
      BY <1>3, <1>7 DEF AddResume
    <2>2. /\ ~entry[e].restoring /\ EntryAt(r, e) /\ ~client[c].removing
          /\ client[c].removing \in BOOLEAN
      BY <1>1, <1>2, <1>3, <1>7, WaitIsOver DEF ClientRecord
    <2>3. client[c].removing = FALSE
      BY <2>2
    <2>4. Spent /\ (fails => used'["faults"] # 0)
      BY <2>1, SpendSpends
    <2>5. entries[r] # None
      BY <1>2, <1>7
    <2>6. AddTo(r, e, h, FALSE, FALSE, fails)
      BY <2>1, <2>3
    <2>7. \A d \in Client : \/ client'[d] = client[d]
                            \/ client'[d] = NoClient /\ client[d].pc # "leased"
      BY <1>1, <1>5
    <2>8. restore[r].stage = "done" /\ registry = "open"
      BY <1>1, <1>3, <1>7
    <2>9. QED
      BY <1>1, <1>5, <2>2, <2>4, <2>5, <2>6, <2>7, <2>8, AddToInv
  <1>8. QED
    BY <1>6, <1>7

-------------------------------------------------------------------------------
(* Restores. *)

\* All fields of the entries but the mark of a restore, and the workspaces of some.
SameButMarks(S) ==
    /\ entry' \in [Entry -> EntryRecord]
    /\ \A f \in Entry : /\ entry'[f].explicit = entry[f].explicit /\ entry'[f].timer = entry[f].timer
                        /\ entry'[f].epoch = entry[f].epoch /\ entry'[f].leases = entry[f].leases
                        /\ entry'[f].removing = entry[f].removing
                        /\ f \notin S => entry'[f].state = entry[f].state

\* The tables, the timers and the requests do not notice a restore.
LEMMA MarkedInv ==
    ASSUME RegistryInv, NEW S, SameButMarks(S),
           UNCHANGED <<entries, due, stale, saved, client, config, registry, draining>>,
           handle' \in [Handle -> HandleRecord], restore' \in [Root -> RestoreRecord],
           used' \in [Budget -> Nat],
           \A h \in Handle : handle[h].life # "none" => handle'[h].life # "none",
           \A r \in Root : restore[r].stage = "done" => restore'[r].stage = "done",
           \A r \in Root : restore[r].entry # None =>
              restore'[r].stage = "done" \/ restore'[r].entry = restore[r].entry
    PROVE  RegistryTypeOK' /\ TableOK' /\ TimerOK' /\ HoldersOK'
  <1> USE DEF RegistryInv, SameButMarks
  <1>1. RegistryTypeOK'
    BY DEF RegistryTypeOK
  <1>2. \A f \in Entry : InTable(f)' <=> InTable(f)
    BY DEF InTable
  <1>3. TableOK'
    <2>1. \A r \in Root : entries[r] \in Entry \cup {None}
      BY KeyFacts DEF RegistryTypeOK
    <2>2. QED
      BY <2>1 DEF TableOK
  <1>4. TimerOK'
    <2>1. due \subseteq Entry \X Nat /\ stale \subseteq due
      BY DEF RegistryTypeOK
    <2>2. QED
      BY <1>2, <2>1 DEF TimerOK
  <1>5. HoldersOK'
    <2>1. \A c \in Client : ClientOK(c)'
      BY StillClient DEF HoldersOK, RegistryTypeOK
    <2>2. \A f : Holders(f)' = Holders(f)
      BY DEF Holders
    <2>3. QED
      BY <1>2, <2>1, <2>2 DEF HoldersOK
  <1>6. QED
    BY <1>1, <1>3, <1>4, <1>5

LEMMA RestoreBeginInv ==
    ASSUME RegistryInv, NEW r \in Root, RestoreBegin(r)
    PROVE  RegistryInv'
  <1> USE DEF RegistryInv
  <1>1. /\ restore[r].stage = "spawned" /\ restore \in [Root -> RestoreRecord]
        /\ restore[r] \in RestoreRecord /\ entry \in [Entry -> EntryRecord]
        /\ entries \in [Key -> Entry \cup {None}] /\ r \in Key /\ None \notin Entry
        /\ UNCHANGED <<entries, due, stale, saved, handle, client, config, registry,
                       draining, used>>
    BY RegistryAssumption, KeyFacts DEF RegistryTypeOK, RestoreBegin
  <1>2. ~BeingRestored(r) /\ restore[r].entry = None /\ restore[r].state = None
    BY <1>1 DEF RestoreOK, BeingRestored
  <1>3. /\ SameButMarks({}) /\ RestoreOK' /\ restore' \in [Root -> RestoreRecord]
        /\ \A q \in Root \ {r} : restore'[q] = restore[q]
        /\ restore'[r].state = None
    <2>1. CASE \/ registry # "open" \/ entries[r] = None
               \/ ~entry[entries[r]].explicit \/ entry[entries[r]].state # None
               \/ entry[entries[r]].restoring
      <3>1. restore' = [restore EXCEPT ![r].stage = "done"] /\ UNCHANGED entry
        BY <2>1 DEF RestoreBegin
      <3>2. restore' \in [Root -> RestoreRecord]
        BY <1>1, <3>1 DEF RestoreRecord
      <3>3. /\ restore'[r].stage = "done" /\ restore'[r].entry = None /\ restore'[r].state = None
            /\ \A q \in Root \ {r} : restore'[q] = restore[q]
        BY <1>1, <1>2, <3>1 DEF RestoreRecord
      <3>4. ~BeingRestored(r)' /\ \A q \in Root \ {r} : BeingRestored(q)' <=> BeingRestored(q)
        BY <3>3 DEF BeingRestored
      <3>5. RestoreOK'
        <4>1. \A q, p \in Root : BeingRestored(q)' /\ restore'[q].entry = restore'[p].entry => q = p
          BY <1>1, <1>2, <3>3, <3>4 DEF RestoreOK
        <4>2. \A f \in Entry : entry'[f].restoring => \E q \in Root : restore'[q].entry = f
          BY <1>1, <1>2, <3>1, <3>3 DEF RestoreOK
        <4>3. ASSUME NEW q \in Root
              PROVE  /\ restore'[q].entry = None <=> ~BeingRestored(q)'
                     /\ restore'[q].state = None <=> restore'[q].stage # "opened"
                     /\ entries[q] # None /\ restore'[q].stage # "done" /\ entry'[entries[q]].leases > 0
                        => entry'[entries[q]].state # None
          BY <1>1, <3>1, <3>3, <3>4 DEF RestoreOK
        <4>4. ASSUME NEW q \in Root, BeingRestored(q)'
              PROVE  LET f == restore'[q].entry
                     IN /\ entry'[f].restoring /\ entry'[f].state = None /\ entry'[f].leases = 0
                        /\ \A k \in Key : entries'[k] = f => k = q
          BY <1>1, <3>1, <3>3, <3>4, <4>4 DEF RestoreOK
        <4>5. QED
          BY <1>1, <4>1, <4>2, <4>3, <4>4 DEF RestoreOK
      <3>6. SameButMarks({})
        BY <1>1, <3>1 DEF SameButMarks
      <3>7. QED
        BY <3>2, <3>3, <3>5, <3>6
    <2>2. CASE ~(\/ registry # "open" \/ entries[r] = None
                 \/ ~entry[entries[r]].explicit \/ entry[entries[r]].state # None
                 \/ entry[entries[r]].restoring)
      <3>1. PICK e \in Entry : e = entries[r]
        BY <1>1, <2>2
      <3>2. /\ entry' = [entry EXCEPT ![e].restoring = TRUE]
            /\ restore' = [restore EXCEPT ![r].stage = "opening", ![r].entry = e]
        BY <2>2, <3>1 DEF RestoreBegin
      <3>3. restore' \in [Root -> RestoreRecord]
        BY <1>1, <3>2 DEF RestoreRecord
      <3>4. /\ restore'[r].stage = "opening" /\ restore'[r].entry = e /\ restore'[r].state = None
            /\ \A q \in Root \ {r} : restore'[q] = restore[q]
        BY <1>1, <1>2, <3>2 DEF RestoreRecord
      <3>5. /\ entry'[e].restoring /\ \A f \in Entry \ {e} : entry'[f] = entry[f]
            /\ entry'[e].state = entry[e].state /\ entry'[e].leases = entry[e].leases
        BY <1>1, <3>2 DEF EntryRecord
      <3>6. SameButMarks({})
        BY <1>1, <3>2 DEF SameButMarks, EntryRecord
      <3>7. BeingRestored(r)' /\ \A q \in Root \ {r} : BeingRestored(q)' <=> BeingRestored(q)
        BY <3>4 DEF BeingRestored
      <3>8. /\ entry[e].state = None /\ ~entry[e].restoring
            /\ \A k \in Key : entries[k] = e => k = r
        BY <1>1, <2>2, <3>1 DEF TableOK
      <3>9. entry[e].leases = 0
        <4>1. entry[e].leases \in Nat
          BY <1>1 DEF EntryRecord
        <4>2. ~(entry[e].leases > 0)
          BY <1>1, <3>1, <3>8 DEF RestoreOK
        <4>3. QED
          BY <4>1, <4>2
      <3>10. \A q \in Root : BeingRestored(q) => restore[q].entry \in Entry \ {e}
        BY <1>1, <3>8 DEF RestoreOK, RestoreRecord
      <3>11. RestoreOK'
        <4>1. \A q, p \in Root : BeingRestored(q)' /\ restore'[q].entry = restore'[p].entry => q = p
          BY <1>1, <3>4, <3>7, <3>10 DEF RestoreOK
        <4>2. \A f \in Entry : entry'[f].restoring => \E q \in Root : restore'[q].entry = f
          BY <1>1, <1>2, <3>4, <3>5 DEF RestoreOK
        <4>3. ASSUME NEW q \in Root
              PROVE  /\ restore'[q].entry = None <=> ~BeingRestored(q)'
                     /\ restore'[q].state = None <=> restore'[q].stage # "opened"
          BY <1>1, <3>4, <3>7 DEF RestoreOK
        <4>4. ASSUME NEW q \in Root, BeingRestored(q)'
              PROVE  LET f == restore'[q].entry
                     IN /\ entry'[f].restoring /\ entry'[f].state = None /\ entry'[f].leases = 0
                        /\ \A k \in Key : entries'[k] = f => k = q
          <5>1. CASE q = r
            BY <1>1, <3>4, <3>5, <3>8, <3>9, <5>1
          <5>2. CASE q # r
            BY <1>1, <3>4, <3>5, <3>7, <3>10, <4>4, <5>2 DEF RestoreOK
          <5>3. QED
            BY <5>1, <5>2
        <4>5. ASSUME NEW q \in Root, entries[q] # None, restore'[q].stage # "done",
                     entry'[entries[q]].leases > 0
              PROVE  entry'[entries[q]].state # None
          <5>1. q \in Key /\ entries[q] \in Entry /\ restore[q].stage # "done"
            BY <1>1, <3>4, <4>5, KeyFacts
          <5>2. entry[entries[q]].leases > 0 /\ entry'[entries[q]].state = entry[entries[q]].state
            BY <3>5, <4>5, <5>1
          <5>3. QED
            BY <4>5, <5>1, <5>2 DEF RestoreOK
        <4>6. QED
          BY <1>1, <4>1, <4>2, <4>3, <4>4, <4>5 DEF RestoreOK
      <3>12. QED
        BY <3>3, <3>4, <3>6, <3>11
    <2>3. QED
      BY <2>1, <2>2
  <1>4. RegistryTypeOK' /\ TableOK' /\ TimerOK' /\ HoldersOK'
    <2>1. used' \in [Budget -> Nat] /\ handle' \in [Handle -> HandleRecord]
      BY <1>1 DEF RegistryTypeOK
    <2>2. \A q \in Root : restore[q].stage = "done" => restore'[q].stage = "done"
      BY <1>1, <1>3
    <2>3. \A q \in Root : restore[q].entry # None =>
             restore'[q].stage = "done" \/ restore'[q].entry = restore[q].entry
      BY <1>2, <1>3
    <2>4. QED
      BY <1>1, <1>3, <2>1, <2>2, <2>3, MarkedInv
  <1>5. \A q \in Root : restore'[q].state = restore[q].state
    BY <1>2, <1>3
  <1>6. \A k \in Key : WorkspaceAt(k)' = WorkspaceAt(k)
    BY <1>1, <1>3 DEF WorkspaceAt, SameButMarks
  <1>7. PlacesOK'
    <2>1. \A h : HasPlace(h)' <=> HasPlace(h)
      BY <1>1, <1>5, <1>6 DEF HasPlace
    <2>2. QED
      BY <1>1, <1>5, <1>6, <2>1 DEF PlacesOK
  <1>8. UntroubledOK'
    <2>1. \A f \in Entry : InTable(f)' <=> InTable(f)
      BY <1>1 DEF InTable
    <2>2. LeasedOK => LeasedOK'
      BY <1>3, <2>1 DEF LeasedOK, SameButMarks
    <2>3. \A c \in Client : client'[c].pc = "leased" =>
             entry'[client[c].entry].state = entry[client[c].entry].state
      BY <1>1, <1>3 DEF SameButMarks, RegistryTypeOK, HoldersOK, ClientOK, ClientRecord
    <2>4. Spent
      BY <1>1, SpendSpends
    <2>5. QED
      BY <1>1, <1>5, <1>6, <2>2, <2>3, <2>4, KeptUntroubled
  <1>9. QED
    BY <1>3, <1>4, <1>7, <1>8

LEMMA RestoreOpenInv ==
    ASSUME RegistryInv, NEW r \in Root, NEW h \in Handle, RestoreOpen(r, h)
    PROVE  RegistryInv'
  <1> USE DEF RegistryInv
  <1>1. /\ restore[r].stage = "opening" /\ restore \in [Root -> RestoreRecord]
        /\ restore[r] \in RestoreRecord /\ handle \in [Handle -> HandleRecord]
        /\ entry \in [Entry -> EntryRecord] /\ client \in [Client -> ClientRecord]
        /\ r \in Key /\ r # None /\ h # None /\ DbOf(r) \in Db
        /\ UNCHANGED <<entries, entry, due, stale, saved, client, config, registry, draining>>
    BY RegistryAssumption, KeyFacts DEF RegistryTypeOK, RestoreOpen, tables
  <1>2. BeingRestored(r) /\ restore[r].entry # None /\ restore[r].state = None
    BY <1>1 DEF RestoreOK, BeingRestored
  <1>3. /\ SameButMarks({})
        /\ \A f \in Entry : InTable(f)' <=> InTable(f)
        /\ \A k \in Key : WorkspaceAt(k)' = WorkspaceAt(k)
    BY <1>1 DEF SameButMarks, InTable, WorkspaceAt
  <1>4. CASE /\ Spend({"faults"})
             /\ restore' = [restore EXCEPT ![r].stage = "failed"]
             /\ UNCHANGED handle
    <2>1. Spent
      BY <1>4, SpendSpends
    <2>2. restore' \in [Root -> RestoreRecord]
      BY <1>1, <1>4 DEF RestoreRecord
    <2>3. /\ restore'[r].stage = "failed" /\ restore'[r].entry = restore[r].entry
          /\ restore'[r].state = None /\ \A q \in Root \ {r} : restore'[q] = restore[q]
      BY <1>1, <1>2, <1>4 DEF RestoreRecord
    <2>4. \A q \in Root : /\ restore'[q].entry = restore[q].entry
                          /\ restore'[q].state = restore[q].state
                          /\ restore'[q].stage = "done" <=> restore[q].stage = "done"
                          /\ BeingRestored(q)' <=> BeingRestored(q)
      BY <1>1, <1>2, <2>3 DEF BeingRestored
    <2>5. RestoreOK'
      <3>1. \A q \in Root : restore'[q].state = None <=> restore'[q].stage # "opened"
        BY <2>3 DEF RestoreOK
      <3>2. QED
        BY <1>1, <2>4, <3>1 DEF RestoreOK
    <2>6. RegistryTypeOK' /\ TableOK' /\ TimerOK' /\ HoldersOK'
      BY <1>1, <1>3, <1>4, <2>1, <2>2, <2>4, MarkedInv DEF Spent
    <2>7. PlacesOK'
      <3>1. \A g : HasPlace(g)' <=> HasPlace(g)
        BY <1>1, <1>3, <2>4 DEF HasPlace
      <3>2. QED
        BY <1>1, <1>3, <1>4, <2>4, <3>1 DEF PlacesOK
    <2>8. UntroubledOK'
      <3>1. LeasedOK => LeasedOK'
        BY <1>1, <1>3 DEF LeasedOK
      <3>2. QED
        BY <1>1, <1>3, <1>4, <2>1, <2>4, <3>1, KeptUntroubled
    <2>9. QED
      BY <2>5, <2>6, <2>7, <2>8
  <1>5. CASE /\ Opened(h, r)
             /\ restore' = [restore EXCEPT ![r].stage = "opened", ![r].state = h]
             /\ UNCHANGED used
    <2>1. Spent
      BY <1>5, SpendSpends
    <2>2. restore' \in [Root -> RestoreRecord]
      BY <1>1, <1>5 DEF RestoreRecord
    <2>3. /\ restore'[r].stage = "opened" /\ restore'[r].entry = restore[r].entry
          /\ restore'[r].state = h /\ \A q \in Root \ {r} : restore'[q] = restore[q]
      BY <1>1, <1>2, <1>5 DEF RestoreRecord
    <2>4. \A q \in Root : /\ restore'[q].entry = restore[q].entry
                          /\ restore'[q].stage = "done" <=> restore[q].stage = "done"
                          /\ BeingRestored(q)' <=> BeingRestored(q)
      BY <1>1, <1>2, <2>3 DEF BeingRestored
    <2>5. RestoreOK'
      <3>1. \A q \in Root : restore'[q].state = None <=> restore'[q].stage # "opened"
        BY <1>1, <2>3 DEF RestoreOK
      <3>2. QED
        BY <1>1, <2>4, <3>1 DEF RestoreOK
    <2>6. /\ handle[h].life = "none"
          /\ handle' = [handle EXCEPT ![h] = [life |-> "open", key |-> r, db |-> DbOf(r)]]
      BY <1>1, <1>5, HandleOpened
    <2>7. /\ handle'[h] = [life |-> "open", key |-> r, db |-> DbOf(r)]
          /\ \A g \in Handle \ {h} : handle'[g] = handle[g]
          /\ handle' \in [Handle -> HandleRecord]
      BY <1>1, <2>6 DEF HandleRecord
    <2>8. RegistryTypeOK' /\ TableOK' /\ TimerOK' /\ HoldersOK'
      <3>1. used' \in [Budget -> Nat] /\ \A g \in Handle : handle[g].life # "none" => handle'[g].life # "none"
        BY <2>1, <2>6, <2>7 DEF Spent
      <3>2. QED
        BY <1>1, <1>3, <2>2, <2>4, <2>7, <3>1, MarkedInv
    <2>9. ~HasPlace(h)
      BY <2>6 DEF PlacesOK
    <2>10. PlacesOK'
      <3>1. ASSUME NEW g \in Handle PROVE handle'[g].life = "open" <=> HasPlace(g)'
        <4>1. CASE g = h
          BY <2>3, <2>7, <4>1 DEF HasPlace
        <4>2. CASE g # h
          <5>1. g # None
            BY RegistryAssumption
          <5>2. \A q \in Root : restore'[q].state = g <=> restore[q].state = g
            BY <1>2, <2>3, <4>2, <5>1
          <5>3. HasPlace(g)' <=> HasPlace(g)
            BY <1>1, <1>3, <5>2 DEF HasPlace
          <5>4. QED
            BY <2>7, <4>2, <5>3 DEF PlacesOK
        <4>3. QED
          BY <4>1, <4>2
      <3>2. \A q, p \in Root : restore'[q].state # None /\ restore'[q].state = restore'[p].state => q = p
        BY <2>3, <2>9 DEF PlacesOK, HasPlace
      <3>3. \A q \in Root : restore'[q].state # None =>
               /\ restore'[q].state \notin draining
               /\ \A k \in Key : WorkspaceAt(k) # restore'[q].state
        BY <2>3, <2>9 DEF PlacesOK, HasPlace
      <3>4. \A g \in Handle : handle'[g].life # "twice"
        BY <2>7 DEF PlacesOK
      <3>5. \A g \in Handle : handle'[g].life # "none" => handle'[g].key # None
        BY <1>1, <2>7 DEF PlacesOK
      <3>6. \A k, l \in Key : WorkspaceAt(k) # None /\ WorkspaceAt(k) = WorkspaceAt(l) => k = l
        BY DEF PlacesOK
      <3>7. QED
        BY <1>1, <1>3, <3>1, <3>2, <3>3, <3>4, <3>5, <3>6 DEF PlacesOK
    <2>11. LeasedOK => LeasedOK'
      BY <1>1, <1>3 DEF LeasedOK
    <2>12. UsingOK => UsingOK'
      BY <1>1 DEF UsingOK
    <2>13. \A g \in Handle : handle[g].life # "none" => handle'[g] = handle[g]
      BY <2>6, <2>7
    <2>14. AsksOK => AsksOK'
      <3>1. \A c \in Client : client[c].using # None =>
               client[c].using \in Handle /\ handle[client[c].using].life # "none"
        BY <1>1 DEF HoldersOK, ClientOK, ClientRecord
      <3>2. QED
        BY <1>1, <2>13, <3>1 DEF AsksOK, DbAsRequested, RelativeConfig
    <2>15. ASSUME KeysOK PROVE KeysOK'
      <3>1. ASSUME NEW k \in Key, WorkspaceAt(k) # None
            PROVE  handle'[WorkspaceAt(k)].key = k /\ handle'[WorkspaceAt(k)].db = DbOf(k)
        <4>1. WorkspaceAt(k) \in Handle
          BY <1>1, <3>1 DEF WorkspaceAt, EntryRecord, RegistryTypeOK
        <4>2. handle[WorkspaceAt(k)].life # "none"
          BY <3>1, <4>1 DEF PlacesOK, HasPlace
        <4>3. QED
          BY <2>13, <2>15, <3>1, <4>1, <4>2 DEF KeysOK
      <3>2. ASSUME NEW q \in Root, restore'[q].state # None
            PROVE  handle'[restore'[q].state].key = q /\ handle'[restore'[q].state].db = DbOf(q)
        <4>1. CASE q = r
          BY <2>3, <2>7, <4>1
        <4>2. CASE q # r
          <5>1. restore'[q] = restore[q] /\ restore[q].state \in Handle
            BY <1>1, <2>3, <3>2, <4>2 DEF RestoreRecord
          <5>2. handle[restore[q].state].life # "none"
            BY <5>1 DEF PlacesOK, HasPlace
          <5>3. QED
            BY <2>13, <2>15, <3>2, <5>1, <5>2 DEF KeysOK
        <4>3. QED
          BY <4>1, <4>2
      <3>3. Restored \subseteq Restored' /\ h \in Restored'
        BY <1>1, <1>2, <2>3 DEF Restored
      <3>4. OneWorkspacePerDb'
        <4>1. SUFFICES ASSUME RelativeConfig', NEW g \in Handle, NEW f \in Handle,
                              handle'[g].life = "open", handle'[f].life = "open",
                              RootOf(handle'[g].key) = RootOf(handle'[f].key),
                              handle'[g].db = handle'[f].db, g # h, f # h
                       PROVE  g = f \/ {g, f} \cap Restored' # {}
          BY <3>3 DEF OneWorkspacePerDb
        <4>2. g = f \/ {g, f} \cap Restored # {}
          BY <1>1, <2>7, <2>15, <4>1, RelativeStays DEF KeysOK, OneWorkspacePerDb
        <4>3. QED
          BY <3>3, <4>2
      <3>5. \A k \in Key : DbOf(k)' = DbOf(k)
        BY <1>1 DEF DbOf
      <3>6. \A q \in Root, db \in Db : entries'[<<q, db>>] # None => db # config'[q]
        BY <1>1, <2>15 DEF KeysOK
      <3>7. QED
        BY <1>1, <1>3, <3>1, <3>2, <3>4, <3>5, <3>6, KeyFacts DEF KeysOK
    <2>16. UntroubledOK'
      BY <1>5, <2>11, <2>12, <2>14, <2>15 DEF UntroubledOK
    <2>17. QED
      BY <2>5, <2>8, <2>10, <2>16
  <1>6. QED
    BY <1>4, <1>5 DEF RestoreOpen

LEMMA RestoreEndInv ==
    ASSUME RegistryInv, NEW r \in Root, RestoreEnd(r)
    PROVE  RegistryInv'
  <1> USE DEF RegistryInv
  <1>1. /\ restore[r].stage \in {"opened", "failed"} /\ restore \in [Root -> RestoreRecord]
        /\ restore[r] \in RestoreRecord /\ handle \in [Handle -> HandleRecord]
        /\ entry \in [Entry -> EntryRecord] /\ client \in [Client -> ClientRecord]
        /\ entries \in [Key -> Entry \cup {None}]
        /\ r \in Key /\ r # None /\ None \notin Entry /\ None \notin Handle
        /\ UNCHANGED <<entries, due, stale, saved, client, config, registry, draining, used>>
    BY RegistryAssumption, KeyFacts DEF RegistryTypeOK, RestoreEnd
  <1>2. BeingRestored(r) /\ restore[r].entry # None
    BY <1>1 DEF RestoreOK, BeingRestored
  <1>3. PICK e \in Entry, s \in Handle \cup {None} : e = restore[r].entry /\ s = restore[r].state
    BY <1>1, <1>2 DEF RestoreRecord
  <1>4. /\ entry[e].restoring /\ entry[e].state = None /\ entry[e].leases = 0
        /\ \A k \in Key : entries[k] = e => k = r
        /\ \A q \in Root \ {r} : restore[q].entry # e
    <2>1. \A q \in Root \ {r} : restore[q].entry # e
      BY <1>2, <1>3 DEF RestoreOK
    <2>2. QED
      BY <1>2, <1>3, <2>1 DEF RestoreOK
  <1>5. PICK ok \in BOOLEAN :
          ok = /\ restore[r].stage = "opened" /\ registry = "open" /\ entries[r] = e
               /\ entry[e].explicit /\ ~entry[e].removing
    BY DEF RestoreEnd
  <1>6. /\ entry' = [entry EXCEPT ![e].restoring = FALSE, ![e].state = IF ok THEN s ELSE @]
        /\ restore' = [restore EXCEPT ![r] = [NoRestore EXCEPT !.stage = "done", !.err = ~ok]]
        /\ IF ok THEN UNCHANGED handle ELSE Closing(s, "closing")
    BY <1>3, <1>5 DEF RestoreEnd
  <1>7. /\ restore'[r].stage = "done" /\ restore'[r].entry = None /\ restore'[r].state = None
        /\ \A q \in Root \ {r} : restore'[q] = restore[q]
        /\ restore' \in [Root -> RestoreRecord]
    <2> DEFINE new == [NoRestore EXCEPT !.stage = "done", !.err = ~ok]
    <2>1. new \in RestoreRecord /\ new.stage = "done" /\ new.entry = None /\ new.state = None
      BY DEF NoRestore, RestoreRecord
    <2>2. restore' = [restore EXCEPT ![r] = new]
      BY <1>6
    <2> HIDE DEF new
    <2>3. QED
      BY <1>1, <2>1, <2>2
  <1>8. /\ ~entry'[e].restoring /\ entry'[e].state = (IF ok THEN s ELSE None)
        /\ entry'[e].leases = 0
        /\ \A f \in Entry \ {e} : entry'[f] = entry[f]
    BY <1>1, <1>4, <1>6 DEF EntryRecord
  <1>9. SameButMarks({e})
    <2> DEFINE new == [entry[e] EXCEPT !.restoring = FALSE, !.state = IF ok THEN s ELSE @]
    <2>1. /\ new \in EntryRecord /\ new.explicit = entry[e].explicit /\ new.timer = entry[e].timer
          /\ new.epoch = entry[e].epoch /\ new.leases = entry[e].leases
          /\ new.removing = entry[e].removing
      BY <1>1 DEF EntryRecord
    <2>2. entry' = [entry EXCEPT ![e] = new]
      BY <1>1, <1>6 DEF EntryRecord
    <2> HIDE DEF new
    <2>3. entry' \in [Entry -> EntryRecord] /\ entry'[e] = new
      BY <1>1, <2>1, <2>2
    <2>4. QED
      BY <1>8, <2>1, <2>3 DEF SameButMarks
  <1>10. /\ ~BeingRestored(r)' /\ \A q \in Root \ {r} : BeingRestored(q)' <=> BeingRestored(q)
    BY <1>7 DEF BeingRestored
  <1>11. RestoreOK'
    <2>1. \A q, p \in Root : BeingRestored(q)' /\ restore'[q].entry = restore'[p].entry => q = p
      BY <1>1, <1>7, <1>10 DEF RestoreOK
    <2>2. \A f \in Entry : entry'[f].restoring => \E q \in Root : restore'[q].entry = f
      BY <1>1, <1>3, <1>7, <1>8 DEF RestoreOK
    <2>3. \A q \in Root : /\ restore'[q].entry = None <=> ~BeingRestored(q)'
                          /\ restore'[q].state = None <=> restore'[q].stage # "opened"
      BY <1>7, <1>10 DEF RestoreOK
    <2>4. ASSUME NEW q \in Root, BeingRestored(q)'
          PROVE  LET f == restore'[q].entry
                 IN /\ entry'[f].restoring /\ entry'[f].state = None /\ entry'[f].leases = 0
                    /\ \A k \in Key : entries'[k] = f => k = q
      <3>1. q # r /\ restore'[q] = restore[q] /\ BeingRestored(q)
        BY <1>7, <1>10, <2>4
      <3>2. restore[q].entry \in Entry \ {e}
        BY <1>1, <1>4, <3>1 DEF RestoreOK, RestoreRecord
      <3>3. QED
        BY <1>1, <1>8, <3>1, <3>2 DEF RestoreOK
    <2>5. ASSUME NEW q \in Root, entries[q] # None, restore'[q].stage # "done",
                 entry'[entries[q]].leases > 0
          PROVE  entry'[entries[q]].state # None
      <3>1. q \in Key /\ q # r /\ restore'[q] = restore[q]
        BY <1>7, <2>5, KeyFacts
      <3>2. entries[q] \in Entry \ {e}
        BY <1>1, <1>4, <2>5, <3>1
      <3>3. QED
        BY <1>8, <2>5, <3>1, <3>2 DEF RestoreOK
    <2>6. QED
      BY <1>1, <2>1, <2>2, <2>3, <2>4, <2>5 DEF RestoreOK
  <1>12. s # None => handle[s].life = "open" /\ HasPlace(s)
    BY <1>1, <1>3 DEF PlacesOK, HasPlace
  <1>13. /\ handle' \in [Handle -> HandleRecord]
         /\ \A g \in Handle : /\ handle'[g].key = handle[g].key /\ handle'[g].db = handle[g].db
                              /\ handle'[g].life = IF ~ok /\ g = s THEN "closing" ELSE handle[g].life
    <2>1. CASE ok \/ s = None
      BY <1>1, <1>6, <2>1 DEF Closing
    <2>2. CASE ~ok /\ s # None
      <3>1. handle' = [handle EXCEPT ![s].life = "closing"]
        BY <1>6, <1>12, <2>2 DEF Closing
      <3>2. QED
        BY <1>1, <2>2, <3>1 DEF HandleRecord
    <2>3. QED
      BY <2>1, <2>2
  <1>14. RegistryTypeOK' /\ TableOK' /\ TimerOK' /\ HoldersOK'
    <2>1. \A g \in Handle : handle[g].life # "none" => handle'[g].life # "none"
      BY <1>13
    <2>2. \A q \in Root : restore[q].stage = "done" => restore'[q].stage = "done"
      BY <1>7
    <2>3. \A q \in Root : restore[q].entry # None =>
             restore'[q].stage = "done" \/ restore'[q].entry = restore[q].entry
      BY <1>7
    <2>4. used' \in [Budget -> Nat]
      BY <1>1 DEF RegistryTypeOK
    <2>5. QED
      BY <1>1, <1>7, <1>9, <1>13, <2>1, <2>2, <2>3, <2>4, MarkedInv
  <1>15. \A k \in Key : WorkspaceAt(k)' = IF ok /\ k = r THEN s ELSE WorkspaceAt(k)
    BY <1>1, <1>4, <1>5, <1>8 DEF WorkspaceAt
  <1>16. ok => WorkspaceAt(r) = None /\ s # None
    BY <1>3, <1>4, <1>5 DEF WorkspaceAt, RestoreOK
  <1>17. PlacesOK'
    <2>1. /\ s # None => /\ s \notin draining
                         /\ \A k \in Key : WorkspaceAt(k) # s
                         /\ \A q \in Root \ {r} : restore[q].state # s
      BY <1>3 DEF PlacesOK
    <2>2. ASSUME NEW g \in Handle PROVE handle'[g].life = "open" <=> HasPlace(g)'
      <3>1. g # None
        BY <1>1
      <3>2. CASE g = s
        <4>1. \A q \in Root : restore'[q].state # g
          BY <1>7, <2>1, <3>1, <3>2
        <4>2. CASE ok
          BY <1>1, <1>12, <1>13, <1>15, <3>1, <3>2, <4>2 DEF HasPlace
        <4>3. CASE ~ok
          BY <1>1, <1>13, <1>15, <2>1, <3>1, <3>2, <4>1, <4>3 DEF HasPlace
        <4>4. QED
          BY <4>2, <4>3
      <3>3. CASE g # s
        <4>1. \A k \in Key : WorkspaceAt(k)' = g <=> WorkspaceAt(k) = g
          BY <1>15, <1>16, <3>1, <3>3
        <4>2. \A q \in Root : restore'[q].state = g <=> restore[q].state = g
          BY <1>3, <1>7, <3>1, <3>3
        <4>3. HasPlace(g)' <=> HasPlace(g)
          BY <1>1, <4>1, <4>2 DEF HasPlace
        <4>4. QED
          BY <1>13, <3>3, <4>3 DEF PlacesOK
      <3>4. QED
        BY <3>2, <3>3
    <2>3. \A k, l \in Key : WorkspaceAt(k)' # None /\ WorkspaceAt(k)' = WorkspaceAt(l)' => k = l
      BY <1>15, <1>16, <2>1 DEF PlacesOK
    <2>4. \A q, p \in Root : restore'[q].state # None /\ restore'[q].state = restore'[p].state => q = p
      BY <1>7 DEF PlacesOK
    <2>5. \A q \in Root : restore'[q].state # None =>
             /\ restore'[q].state \notin draining
             /\ \A k \in Key : WorkspaceAt(k)' # restore'[q].state
      BY <1>7, <1>15, <1>16, <2>1 DEF PlacesOK
    <2>6. /\ \A g \in Handle : handle'[g].life # "twice"
      BY <1>13 DEF PlacesOK
    <2>7. \A g \in Handle : handle'[g].life # "none" => handle'[g].key # None
      BY <1>1, <1>12, <1>13 DEF PlacesOK
    <2>8. QED
      BY <1>1, <2>2, <2>3, <2>4, <2>5, <2>6, <2>7 DEF PlacesOK
  <1>18. UntroubledOK'
    <2>1. \A f \in Entry : InTable(f)' <=> InTable(f)
      BY <1>1 DEF InTable
    <2>2. LeasedOK => LeasedOK'
      BY <1>8, <2>1 DEF LeasedOK
    <2>3. Spent
      BY <1>1, SpendSpends
    <2>4. CASE ~ok
      <3>1. \A f \in Entry : entry'[f].state = entry[f].state
        BY <1>4, <1>8, <2>4
      <3>2. \A c \in Client : client'[c].pc = "leased" =>
               entry'[client[c].entry].state = entry[client[c].entry].state
        BY <1>1, <3>1 DEF HoldersOK, ClientOK, ClientRecord
      <3>3. \A q \in Root : \/ restore'[q].state = restore[q].state
                            \/ restore'[q].state = None /\ handle'[restore[q].state].life # "open"
        <4>1. s # None => s \in Handle /\ handle'[s].life # "open"
          BY <1>13, <2>4
        <4>2. QED
          BY <1>3, <1>7, <4>1
      <3>4. \A g \in Handle : handle'[g].life = "open" => handle[g].life = "open"
        BY <1>13
      <3>5. QED
        BY <1>1, <1>13, <1>15, <2>2, <2>3, <2>4, <3>2, <3>3, <3>4, KeptUntroubled
    <2>5. CASE ok
      <3>1. handle' = handle /\ registry = "open" /\ draining = {} /\ s \in Handle
        BY <1>3, <1>5, <1>6, <1>16, <2>5 DEF TableOK
      <3>2. AsksOK => AsksOK'
        BY <1>1, <3>1 DEF AsksOK, DbAsRequested, RelativeConfig
      <3>3. ASSUME UsingOK PROVE UsingOK'
        <4>1. ASSUME NEW c \in Client, client[c].using # None
              PROVE  entry'[client[c].entry].state = entry[client[c].entry].state
          <5>1. client[c].pc = "leased" /\ client[c].entry \in Entry
            BY <1>1, <4>1 DEF HoldersOK, ClientOK, ClientRecord, NoClient
          <5>2. InTable(e) /\ Cardinality(Holders(e)) = 0
            BY <1>1, <1>4, <1>5, <2>5 DEF InTable, HoldersOK
          <5>3. client[c].entry # e
            BY <5>1, <5>2, HoldersCounted DEF Holders
          <5>4. QED
            BY <1>8, <5>1, <5>3
        <4>2. QED
          BY <1>1, <3>3, <4>1 DEF UsingOK
      <3>4. ASSUME KeysOK PROVE KeysOK'
        <4>1. \A k \in Key : DbOf(k)' = DbOf(k)
          BY <1>1 DEF DbOf
        <4>2. \A q \in Root, db \in Db : entries'[<<q, db>>] # None => db # config[q]
          BY <1>1, <3>4 DEF KeysOK
        <4>3. ASSUME NEW k \in Key, WorkspaceAt(k)' # None
              PROVE  handle'[WorkspaceAt(k)'].key = k /\ handle'[WorkspaceAt(k)'].db = DbOf(k)
          <5>1. CASE k = r
            BY <1>1, <1>3, <1>15, <1>16, <2>5, <3>1, <3>4, <5>1 DEF KeysOK
          <5>2. CASE k # r
            BY <1>15, <3>1, <3>4, <4>3, <5>2 DEF KeysOK
          <5>3. QED
            BY <5>1, <5>2
        <4>4. \A q \in Root : restore'[q].state # None =>
                 handle'[restore'[q].state].key = q /\ handle'[restore'[q].state].db = DbOf(q)
          BY <1>7, <3>1, <3>4 DEF KeysOK
        <4>5. OneWorkspacePerDb'
          BY <1>1, <1>17, <3>1, <4>2, <4>3, OpenAtKeys
        <4>6. QED
          BY <1>1, <4>1, <4>2, <4>3, <4>4, <4>5, KeyFacts DEF KeysOK
      <3>5. QED
        BY <1>1, <2>2, <3>2, <3>3, <3>4 DEF UntroubledOK
    <2>6. QED
      BY <2>4, <2>5
  <1>19. QED
    BY <1>11, <1>14, <1>17, <1>18

-------------------------------------------------------------------------------
(* Closing, edits, restarts. *)

LEMMA HandleClosedInv ==
    ASSUME RegistryInv, NEW h \in Handle, HandleClosed(h)
    PROVE  RegistryInv'
  <1> USE DEF RegistryInv
  <1>1. /\ handle[h].life \in {"closing", "joined"} /\ handle' = [handle EXCEPT ![h].life = "closed"]
        /\ handle \in [Handle -> HandleRecord]
        /\ UNCHANGED <<tables, saved, restore, client, config, registry, draining, used>>
    BY DEF HandleClosed, RegistryTypeOK
  <1>2. /\ handle' \in [Handle -> HandleRecord] /\ handle'[h].life = "closed"
        /\ handle'[h].key = handle[h].key /\ handle'[h].db = handle[h].db
        /\ \A g \in Handle \ {h} : handle'[g] = handle[g]
    BY <1>1 DEF HandleRecord
  <1>3. RegistryTypeOK'
    BY <1>1, <1>2 DEF RegistryTypeOK, tables
  <1>4. TimerOK'
    BY <1>1 DEF TimerOK, tables, InTable
  <1>5. PlacesOK'
    <2>1. /\ \A k : WorkspaceAt(k)' = WorkspaceAt(k)
          /\ \A g : HasPlace(g)' <=> HasPlace(g)
      BY <1>1 DEF WorkspaceAt, HasPlace, tables
    <2>2. \A g \in Handle : handle'[g].life = "open" <=> HasPlace(g)'
      BY <1>1, <1>2, <2>1 DEF PlacesOK
    <2>3. \A g \in Handle : handle'[g].life # "twice"
      BY <1>2 DEF PlacesOK
    <2>4. \A g \in Handle : handle'[g].life # "none" => handle'[g].key # None
      BY <1>1, <1>2 DEF PlacesOK
    <2>5. QED
      BY <1>1, <2>1, <2>2, <2>3, <2>4 DEF PlacesOK
  <1>6. \A g \in Handle : /\ handle'[g].life = "open" => handle[g].life = "open"
                          /\ handle[g].life # "none" => /\ handle'[g].life # "none"
                                                        /\ handle'[g].key = handle[g].key
                                                        /\ handle'[g].db = handle[g].db
    BY <1>1, <1>2
  <1>7. Spent /\ (registry' # "closing" => draining' = {})
    BY <1>1, SpendSpends DEF TableOK
  <1>8. QED
    BY <1>1, <1>3, <1>4, <1>5, <1>6, <1>7, KeptInv DEF tables

LEMMA CloseDrainInv ==
    ASSUME RegistryInv, NEW h \in Handle, CloseDrain(h)
    PROVE  RegistryInv'
  <1> USE DEF RegistryInv
  <1>1. /\ h \in draining /\ draining' = draining \ {h} /\ Closing(h, "joined")
        /\ handle \in [Handle -> HandleRecord] /\ draining \subseteq Handle /\ h # None
        /\ UNCHANGED <<tables, saved, restore, client, config, registry, used>>
    BY RegistryAssumption DEF CloseDrain, RegistryTypeOK
  <1>2. registry = "closing" /\ \A k \in Key : WorkspaceAt(k) = None
    BY <1>1 DEF TableOK, WorkspaceAt
  <1>3. handle[h].life = "open"
    BY <1>1 DEF PlacesOK, HasPlace
  <1>4. handle' = [handle EXCEPT ![h].life = "joined"]
    BY <1>1, <1>3 DEF Closing
  <1>5. /\ handle' \in [Handle -> HandleRecord] /\ handle'[h].life = "joined"
        /\ handle'[h].key = handle[h].key /\ handle'[h].db = handle[h].db
        /\ \A g \in Handle \ {h} : handle'[g] = handle[g]
    BY <1>1, <1>4 DEF HandleRecord
  <1>6. RegistryTypeOK'
    BY <1>1, <1>5 DEF RegistryTypeOK, tables
  <1>7. TimerOK'
    BY <1>1 DEF TimerOK, tables, InTable
  <1>8. PlacesOK'
    <2>1. \A k : WorkspaceAt(k)' = WorkspaceAt(k)
      BY <1>1 DEF WorkspaceAt, tables
    <2>2. \A q \in Root : restore[q].state # h
      BY <1>1 DEF PlacesOK
    <2>3. ASSUME NEW g \in Handle PROVE handle'[g].life = "open" <=> HasPlace(g)'
      <3>1. CASE g = h
        BY <1>1, <1>2, <1>5, <2>1, <2>2, <3>1 DEF HasPlace
      <3>2. CASE g # h
        <4>1. HasPlace(g)' <=> HasPlace(g)
          BY <1>1, <2>1, <3>2 DEF HasPlace
        <4>2. QED
          BY <1>5, <3>2, <4>1 DEF PlacesOK
      <3>3. QED
        BY <3>1, <3>2
    <2>4. \A g \in Handle : handle'[g].life # "twice"
      BY <1>5 DEF PlacesOK
    <2>5. \A g \in Handle : handle'[g].life # "none" => handle'[g].key # None
      BY <1>3, <1>5 DEF PlacesOK
    <2>6. QED
      BY <1>1, <2>1, <2>3, <2>4, <2>5 DEF PlacesOK
  <1>9. \A g \in Handle : /\ handle'[g].life = "open" => handle[g].life = "open"
                          /\ handle[g].life # "none" => /\ handle'[g].life # "none"
                                                        /\ handle'[g].key = handle[g].key
                                                        /\ handle'[g].db = handle[g].db
    BY <1>3, <1>5
  <1>10. Spent /\ (registry' # "closing" => draining' = {})
    BY <1>1, <1>2, SpendSpends
  <1>11. QED
    BY <1>1, <1>6, <1>7, <1>8, <1>9, <1>10, KeptInv DEF tables

LEMMA CloseFinishInv ==
    ASSUME RegistryInv, CloseFinish
    PROVE  RegistryInv'
  <1> USE DEF RegistryInv, CloseFinish, tables
  <1>1. RegistryTypeOK'
    BY DEF RegistryTypeOK
  <1>2. TimerOK'
    BY DEF TimerOK, InTable
  <1>3. PlacesOK'
    <2>1. /\ \A k : WorkspaceAt(k)' = WorkspaceAt(k)
          /\ \A g : HasPlace(g)' <=> HasPlace(g)
      BY DEF WorkspaceAt, HasPlace
    <2>2. QED
      BY <2>1 DEF PlacesOK
  <1>4. Spent
    BY SpendSpends
  <1>5. QED
    BY <1>1, <1>2, <1>3, <1>4, KeptInv

LEMMA CloseStartInv ==
    ASSUME RegistryInv, CloseStart
    PROVE  RegistryInv'
  <1> USE DEF RegistryInv
  <1>1. /\ registry = "open" /\ registry' = "closing" /\ entries' = [k \in Key |-> None]
        /\ draining' = {entry[entries[k]].state : k \in {x \in Key : entries[x] # None}} \ {None}
        /\ due' \subseteq due /\ stale' = stale \cap due'
        /\ UNCHANGED <<entry, saved, restore, handle, client, config, used>>
        /\ entries \in [Key -> Entry \cup {None}] /\ entry \in [Entry -> EntryRecord]
        /\ None \notin Entry /\ None \notin Handle
    BY RegistryAssumption DEF CloseStart, RegistryTypeOK
  <1>2. /\ \A k \in Key : entries'[k] = None /\ WorkspaceAt(k)' = None
        /\ \A f \in Entry : ~InTable(f)'
    BY <1>1 DEF WorkspaceAt, InTable
  <1>3. \A h : h \in draining' <=> h # None /\ \E k \in Key : WorkspaceAt(k) = h
    BY <1>1 DEF WorkspaceAt
  <1>4. draining = {}
    BY <1>1 DEF TableOK
  <1>5. RegistryTypeOK'
    <2>1. draining' \subseteq Handle
      BY <1>1 DEF EntryRecord
    <2>2. entries' \in [Key -> Entry \cup {None}]
      BY <1>1
    <2>3. QED
      BY <1>1, <2>1, <2>2 DEF RegistryTypeOK
  <1>6. TableOK'
    BY <1>1, <1>2 DEF TableOK
  <1>7. TimerOK'
    BY <1>1, <1>2 DEF TimerOK
  <1>8. RestoreOK'
    <2>1. \A r \in Root : BeingRestored(r)' <=> BeingRestored(r)
      BY <1>1 DEF BeingRestored
    <2>2. \A r \in Root : r \in Key /\ entries'[r] = None
      BY <1>2, KeyFacts
    <2>3. ASSUME NEW r \in Root, BeingRestored(r)
          PROVE  LET f == restore[r].entry
                 IN /\ entry[f].restoring /\ entry[f].state = None /\ entry[f].leases = 0
                    /\ \A k \in Key : entries'[k] # f
      BY <1>1, <1>2, <2>3 DEF RestoreOK
    <2>4. QED
      BY <1>1, <2>1, <2>2, <2>3 DEF RestoreOK
  <1>9. HoldersOK'
    <2>1. \A c \in Client : ClientOK(c)'
      BY <1>1, <1>2 DEF HoldersOK, ClientOK
    <2>2. QED
      BY <1>2, <2>1 DEF HoldersOK
  <1>10. PlacesOK'
    <2>1. \A h \in Handle : HasPlace(h)' <=> HasPlace(h)
      BY <1>1, <1>2, <1>3, <1>4 DEF HasPlace
    <2>2. \A h \in Handle : handle'[h].life = "open" <=> HasPlace(h)'
      BY <1>1, <2>1 DEF PlacesOK
    <2>3. \A r \in Root : restore[r].state # None => restore[r].state \notin draining'
      BY <1>3 DEF PlacesOK
    <2>4. QED
      BY <1>1, <1>2, <2>2, <2>3 DEF PlacesOK
  <1>11. UntroubledOK'
    <2>1. LeasedOK'
      BY <1>2 DEF LeasedOK
    <2>2. Spent
      BY <1>1, SpendSpends
    <2>3. QED
      BY <1>1, <1>2, <2>1, <2>2, KeptUntroubled
  <1>12. QED
    BY <1>5, <1>6, <1>7, <1>8, <1>9, <1>10, <1>11

LEMMA EditConfigInv ==
    ASSUME RegistryInv, NEW r \in Root, NEW db \in Db, EditConfig(r, db)
    PROVE  RegistryInv'
  <1> USE DEF RegistryInv, tables
  <1>1. /\ Spend({"edits"}) /\ config' = [config EXCEPT ![r] = db]
        /\ UNCHANGED <<tables, saved, restore, handle, client, registry, draining>>
    BY DEF EditConfig
  <1>2. Spent /\ used'["edits"] # 0
    BY <1>1, SpendSpends
  <1>3. /\ \A f : InTable(f)' <=> InTable(f)
        /\ \A k : WorkspaceAt(k)' = WorkspaceAt(k)
        /\ \A h : HasPlace(h)' <=> HasPlace(h)
        /\ \A q : BeingRestored(q)' <=> BeingRestored(q)
        /\ \A f : Holders(f)' = Holders(f)
    BY <1>1 DEF InTable, WorkspaceAt, HasPlace, BeingRestored, Holders
  <1>4. RegistryTypeOK'
    BY <1>1, <1>2 DEF RegistryTypeOK, Spent
  <1>5. TableOK'
    BY <1>1 DEF TableOK
  <1>6. TimerOK'
    BY <1>1, <1>3 DEF TimerOK
  <1>7. RestoreOK'
    BY <1>1, <1>3 DEF RestoreOK
  <1>8. HoldersOK'
    <2>1. \A c \in Client : ClientOK(c)' <=> ClientOK(c)
      BY <1>1 DEF ClientOK
    <2>2. QED
      BY <1>1, <1>3, <2>1 DEF HoldersOK
  <1>9. PlacesOK'
    BY <1>1, <1>3 DEF PlacesOK
  <1>10. LeasedOK => LeasedOK'
    BY <1>1, <1>3 DEF LeasedOK
  <1>11. UntroubledOK'
    BY <1>2, <1>10 DEF UntroubledOK, Spent
  <1>12. QED
    BY <1>4, <1>5, <1>6, <1>7, <1>8, <1>9, <1>11

\* The registry as it starts.
JustStarted ==
    /\ saved \subseteq Root /\ entries \in SavedEntries(saved) /\ entry = Explicit(entries)
    /\ due = {} /\ stale = {} /\ draining = {}
    /\ restore = Spawned(saved) /\ handle = NoHandles /\ client = NoClients
    /\ registry = "open" /\ config \in [Root -> Db] /\ used \in [Budget -> Nat]

LEMMA StartInv == JustStarted => RegistryInv
  <1> SUFFICES ASSUME JustStarted PROVE RegistryInv
    OBVIOUS
  <1>1. /\ saved \subseteq Root /\ entries \in [Key -> Entry \cup {None}]
        /\ \A k \in Key : entries[k] # None <=> k \in saved
        /\ \A k \in Key, l \in Key : entries[k] # None /\ entries[k] = entries[l] => k = l
        /\ None \notin Entry /\ None \notin Handle
    BY RegistryAssumption DEF JustStarted, SavedEntries
  <1>2. /\ NoEntry \in EntryRecord /\ [NoEntry EXCEPT !.explicit = TRUE] \in EntryRecord
        /\ NoEntry.timer = FALSE /\ NoEntry.restoring = FALSE /\ NoEntry.leases = 0
        /\ NoEntry.removing = FALSE /\ NoEntry.state = None /\ NoEntry.explicit = FALSE
    BY DEF NoEntry, EntryRecord
  <1>3. ASSUME NEW e \in Entry
        PROVE  /\ entry[e] \in EntryRecord /\ ~entry[e].timer /\ ~entry[e].restoring
               /\ entry[e].leases = 0 /\ ~entry[e].removing /\ entry[e].state = None
               /\ entry[e].explicit <=> InTable(e)
    <2>1. entry[e] = IF InTable(e) THEN [NoEntry EXCEPT !.explicit = TRUE] ELSE NoEntry
      BY DEF JustStarted, Explicit, InTable
    <2>2. CASE InTable(e)
      BY <1>2, <2>1, <2>2 DEF NoEntry
    <2>3. CASE ~InTable(e)
      BY <1>2, <2>1, <2>3
    <2>4. QED
      BY <2>2, <2>3
  <1>4. entry \in [Entry -> EntryRecord]
    <2>1. entry = [e \in Entry |-> entry[e]]
      BY DEF JustStarted, Explicit
    <2>2. QED
      BY <1>3, <2>1
  <1>5. ASSUME NEW r \in Root
        PROVE  /\ restore[r] \in RestoreRecord /\ restore[r].entry = None /\ restore[r].state = None
               /\ restore[r].stage \in {"none", "spawned"} /\ ~BeingRestored(r)
    <2>1. restore[r] = IF r \in saved THEN [NoRestore EXCEPT !.stage = "spawned"] ELSE NoRestore
      BY DEF JustStarted, Spawned
    <2>2. NoRestore \in RestoreRecord /\ [NoRestore EXCEPT !.stage = "spawned"] \in RestoreRecord
      BY DEF NoRestore, RestoreRecord
    <2>3. restore[r].entry = None /\ restore[r].state = None /\ restore[r].stage \in {"none", "spawned"}
      BY <2>1 DEF NoRestore
    <2>4. QED
      BY <2>1, <2>2, <2>3 DEF BeingRestored
  <1>6. restore \in [Root -> RestoreRecord]
    <2>1. restore = [r \in Root |-> restore[r]]
      BY DEF JustStarted, Spawned
    <2>2. QED
      BY <1>5, <2>1
  <1>7. /\ \A c \in Client : client[c] = NoClient
        /\ client \in [Client -> ClientRecord] /\ NoClient.pc = "idle" /\ NoClient.using = None
    BY DEF JustStarted, NoClients, NoClient, ClientRecord
  <1>8. /\ \A h \in Handle : handle[h].life = "none"
        /\ handle \in [Handle -> HandleRecord]
    BY DEF JustStarted, NoHandles, NoHandle, HandleRecord
  <1>9. /\ due = {} /\ stale = {} /\ draining = {} /\ registry = "open"
        /\ config \in [Root -> Db] /\ used \in [Budget -> Nat]
    BY DEF JustStarted
  <1>10. \A k \in Key : WorkspaceAt(k) = None
    BY <1>1, <1>3 DEF WorkspaceAt
  <1>11. RegistryTypeOK
    BY <1>1, <1>4, <1>6, <1>7, <1>8, <1>9 DEF RegistryTypeOK
  <1>12. TableOK
    <2>1. \A r \in Root : entries[r] # None /\ entry[entries[r]].explicit <=> r \in saved
      <3>1. \A r \in Root : r \in Key
        BY KeyFacts
      <3>2. QED
        BY <1>1, <1>3, <3>1 DEF InTable
    <2>2. saved = {r \in Root : entries[r] # None /\ entry[entries[r]].explicit}
      BY <1>1, <2>1
    <2>3. QED
      BY <1>1, <1>9, <2>2 DEF TableOK
  <1>13. TimerOK
    BY <1>3, <1>9 DEF TimerOK
  <1>14. RestoreOK
    <2>1. \A r \in Root : entries[r] \in Entry \cup {None}
      BY <1>1, KeyFacts
    <2>2. ASSUME NEW r \in Root, entries[r] # None PROVE ~(entry[entries[r]].leases > 0)
      BY <1>3, <2>1, <2>2
    <2>3. QED
      BY <1>3, <1>5, <2>2 DEF RestoreOK
  <1>15. HoldersOK
    <2>1. \A e \in Entry : Holders(e) = {}
      BY <1>7 DEF Holders
    <2>2. Cardinality({}) = 0
      BY FS_EmptySet
    <2>3. QED
      BY <1>3, <1>7, <2>1, <2>2 DEF HoldersOK, ClientOK
  <1>16. PlacesOK
    <2>1. \A h \in Handle : ~HasPlace(h)
      BY <1>1, <1>5, <1>9, <1>10 DEF HasPlace
    <2>2. QED
      BY <1>5, <1>8, <1>10, <2>1 DEF PlacesOK
  <1>17. UntroubledOK
    <2>1. LeasedOK
      BY <1>3 DEF LeasedOK
    <2>2. UsingOK
      BY <1>7 DEF UsingOK
    <2>3. AsksOK
      BY <1>7 DEF AsksOK, DbAsRequested, RelativeConfig
    <2>4. KeysOK
      <3>1. \A r \in Root, db \in Db : entries[<<r, db>>] = None
        BY <1>1, KeyFacts
      <3>2. OneWorkspacePerDb
        BY <1>8 DEF OneWorkspacePerDb, RelativeConfig
      <3>3. QED
        BY <1>5, <1>10, <3>1, <3>2 DEF KeysOK
    <2>5. QED
      BY <2>1, <2>2, <2>3, <2>4 DEF UntroubledOK
  <1>18. QED
    BY <1>11, <1>12, <1>13, <1>14, <1>15, <1>16, <1>17 DEF RegistryInv

LEMMA RegistryStarts == RegistryInit => RegistryInv
  <1>1. RegistryInit => JustStarted
    BY DEF RegistryInit, JustStarted, Budget
  <1>2. QED
    BY <1>1, StartInv

LEMMA StartedInv == JustStarted' => RegistryInv'
  BY StartInv, PTL

LEMMA RestartInv ==
    ASSUME RegistryInv, Restart
    PROVE  RegistryInv'
  <1>1. Spent
    BY SpendSpends DEF Restart, RegistryInv
  <1>2. JustStarted'
    BY <1>1 DEF Restart, JustStarted, RegistryInv, RegistryTypeOK, Spent
  <1>3. QED
    BY <1>2, StartedInv

-------------------------------------------------------------------------------
LEMMA NextInv == RegistryInv /\ [RegistryNext]_registryVars => RegistryInv'
  <1> SUFFICES ASSUME RegistryInv, [RegistryNext]_registryVars PROVE RegistryInv'
    OBVIOUS
  <1>1. CASE UNCHANGED registryVars
    <2>1. UNCHANGED <<tables, saved, restore, handle, client, config, registry, draining, used>>
      BY <1>1 DEF registryVars
    <2>2. client' \in [Client -> ClientRecord] /\ Spent
      BY <2>1, SpendSpends DEF RegistryInv, RegistryTypeOK
    <2>3. \A c \in Client : ClientOK(c)'
      BY <2>1 DEF RegistryInv, HoldersOK, ClientOK, tables
    <2>4. \A f : Holders(f)' = Holders(f)
      BY <2>1 DEF Holders
    <2>5. used["edits"] = 0 => AsksOK'
      BY <2>1 DEF RegistryInv, UntroubledOK, AsksOK, DbAsRequested, RelativeConfig
    <2>6. used["edits"] = 0 /\ used["faults"] = 0 => UsingOK'
      BY <2>1 DEF RegistryInv, UntroubledOK, UsingOK, tables
    <2>7. QED
      BY <2>1, <2>2, <2>3, <2>4, <2>5, <2>6, QuietInv
  <1>2. ASSUME NEW c \in Client, NEW h \in Handle, AcquireResume(c, h) \/ AddResume(c, h)
        PROVE  RegistryInv'
    BY <1>2, AcquireResumeInv, AddResumeInv
  <1>3. ASSUME NEW c \in Client, Release(c) PROVE RegistryInv'
    BY <1>3, ReleaseInv
  <1>4. ASSUME NEW c \in Client, NEW r \in Root, NEW e \in Entry, NEW h \in Handle,
               \/ Add(c, r, e, h) \/ ResolveLeased(c, e, h)
               \/ \E ask \in Db \cup {None} : Acquire(c, r, ask, e, h)
        PROVE  RegistryInv'
    BY <1>4, AddInv, ResolveLeasedInv, AcquireInv
  <1>5. ASSUME NEW r \in Root, Restoring(r) PROVE RegistryInv'
    BY <1>5, RestoreBeginInv, RestoreOpenInv, RestoreEndInv DEF Restoring
  <1>6. ASSUME NEW r \in Root, RemoveRoot(r) \/ \E db \in Db : EditConfig(r, db)
        PROVE  RegistryInv'
    BY <1>6, RemoveRootInv, EditConfigInv
  <1>7. ASSUME NEW x \in due, Evict(x) PROVE RegistryInv'
    BY <1>7, EvictInv
  <1>8. ASSUME NEW h \in Handle,
               \/ HandleClosed(h) \/ CloseDrain(h)
               \/ \E g \in Handle, e \in Entry : ResolveConfirmation(g, e, h)
        PROVE  RegistryInv'
    BY <1>8, HandleClosedInv, CloseDrainInv, ResolveConfirmationInv
  <1>9. CASE CloseStart \/ CloseFinish \/ Restart
    BY <1>9, CloseStartInv, CloseFinishInv, RestartInv
  <1>10. QED
    BY <1>1, <1>2, <1>3, <1>4, <1>5, <1>6, <1>7, <1>8, <1>9 DEF RegistryNext, Resume

\* The registry's invariant: tables, timers, restores, leases, open workspaces and what
\* holds of them while nothing fails and no configuration is edited (daemon.go).
THEOREM RegistryInvariant == Spec => []RegistryInv
  BY RegistryStarts, NextInv, PTL DEF Spec

\* Nothing leaks: an open workspace is one that the tables, Close or a restore will
\* close, and none is closed twice, whatever fails, is restored late or is shut down
\* meanwhile (Release, evict, Remove, restoreExplicit, Close).
THEOREM NothingLeaksAlways == Spec => []NothingLeaks
  <1>1. RegistryInv => NothingLeaks
    <2> SUFFICES ASSUME RegistryInv PROVE NothingLeaks
      OBVIOUS
    <2>1. /\ entries \in [Key -> Entry \cup {None}] /\ entry \in [Entry -> EntryRecord]
          /\ restore \in [Root -> RestoreRecord] /\ draining \subseteq Handle
          /\ None \notin Handle /\ None \notin Entry
      BY RegistryAssumption DEF RegistryInv, RegistryTypeOK
    <2>2. InTables \cup draining \cup Restored \subseteq Handle
      BY <2>1 DEF InTables, Restored, EntryRecord, RestoreRecord
    <2>3. ASSUME NEW h \in Handle PROVE HasPlace(h) <=> h \in InTables \cup draining \cup Restored
      <3>1. h \in InTables <=> \E k \in Key : WorkspaceAt(k) = h
        BY <2>1 DEF InTables, WorkspaceAt
      <3>2. h \in Restored <=> \E r \in Root : restore[r].state = h
        BY <2>1 DEF Restored
      <3>3. QED
        BY <3>1, <3>2 DEF HasPlace
    <2>4. QED
      BY <2>2, <2>3 DEF RegistryInv, PlacesOK, NothingLeaks
  <1>2. QED
    BY <1>1, RegistryInvariant, PTL

\* What the holder of a lease finds.
LEMMA LeaseKept ==
    RegistryInv => /\ used["faults"] = 0 => LeasesSurviveFailures
                   /\ used["edits"] = 0 => LeasedStaysOpen
  <1> SUFFICES ASSUME RegistryInv, used["faults"] = 0
               PROVE  /\ LeasesSurviveFailures
                      /\ used["edits"] = 0 => LeasedStaysOpen
    BY DEF LeasedStaysOpen
  <1>1. ASSUME NEW c \in Client, registry = "open", client[c].pc = "leased" PROVE LeaseHolds(c)
    <2>1. PICK e \in Entry, k \in Key : e = client[c].entry /\ k = client[c].key
      BY <1>1 DEF RegistryInv, RegistryTypeOK, HoldersOK, ClientOK, ClientRecord
    <2>2. entries[k] = e /\ InTable(e) /\ entry[e] \in EntryRecord
      BY <1>1, <2>1 DEF RegistryInv, RegistryTypeOK, HoldersOK, ClientOK, InTable
    <2>3. entry[e].leases # 0
      <3>1. c \in Holders(e)
        BY <1>1, <2>1 DEF Holders
      <3>2. QED
        BY <2>2, <3>1, HoldersCounted DEF RegistryInv, HoldersOK
    <2>4. entry[e].leases > 0
      BY <2>2, <2>3 DEF EntryRecord
    <2>5. entry[e].state # None /\ entry[e].state \in Handle
      BY <2>2, <2>4 DEF RegistryInv, UntroubledOK, LeasedOK, EntryRecord
    <2>6. WorkspaceAt(k) = entry[e].state
      BY <2>2, RegistryAssumption DEF WorkspaceAt
    <2>7. handle[entry[e].state].life = "open"
      BY <2>5, <2>6 DEF RegistryInv, PlacesOK, HasPlace
    <2>8. QED
      BY <2>1, <2>2, <2>4, <2>5, <2>7 DEF LeaseHolds
  <1>2. QED
    BY <1>1 DEF LeasesSurviveFailures, LeasedStaysOpen, RegistryInv, UntroubledOK, UsingOK

\* A request that holds a lease works on an open workspace as long as nothing has
\* failed to open or to be saved, whatever is evicted, removed, added, restored or
\* edited meanwhile (acquireLocked, evict, Remove, the release closures).
THEOREM LeasesKept == Spec => [](used["faults"] = 0 => LeasesSurviveFailures)
  BY LeaseKept, RegistryInvariant, PTL

\* Until a configuration is edited, what the holder of a lease resolves is the workspace
\* it leased too (resolveLocked and ResolveCode after AcquireCode).
THEOREM LeasedStays == Spec => [](used["edits"] = 0 => LeasedStaysOpen)
  BY LeaseKept, RegistryInvariant, PTL

\* A request that names a database is served from it, until a configuration is edited
\* (codeWorkspacePaths, findCodeEntryLocked).
THEOREM DbAsRequestedAlways == Spec => [](used["edits"] = 0 => DbAsRequested)
  <1>1. RegistryInv => (used["edits"] = 0 => DbAsRequested)
    BY DEF RegistryInv, UntroubledOK, AsksOK
  <1>2. QED
    BY <1>1, RegistryInvariant, PTL

\* The registry file lists the explicit roots and an idle workspace has a timer,
\* whatever fails or is edited (Add, Remove, persistLocked, scheduleEvictionLocked).
THEOREM FileAndTimersAlways == Spec => []FileAndTimersAgree
  <1>1. RegistryInv => FileAndTimersAgree
    <2> SUFFICES ASSUME RegistryInv PROVE FileAndTimersAgree
      OBVIOUS
    <2>1. ASSUME NEW k \in Key, entries[k] # None
          PROVE  \/ entry[entries[k]].explicit \/ entry[entries[k]].leases > 0
                 \/ <<entries[k], entry[entries[k]].epoch>> \in due
      <3>1. entries[k] \in Entry /\ InTable(entries[k])
        BY <2>1 DEF RegistryInv, RegistryTypeOK, InTable
      <3>2. QED
        BY <3>1 DEF RegistryInv, TimerOK
    <2>2. QED
      BY <2>1 DEF FileAndTimersAgree, RegistryInv, TableOK
  <1>2. QED
    BY <1>1, RegistryInvariant, PTL

\* Until a configuration is edited, a root and database have one open workspace too, so
\* that no two clear and write one overlay (findCodeEntryLocked, restoreExplicit).
THEOREM TablesAgreeAlways == Spec => [](used["edits"] = 0 => TablesAgree)
  <1>1. RegistryInv => (used["edits"] = 0 => OneWorkspacePerDb)
    BY DEF RegistryInv, UntroubledOK, KeysOK
  <1>2. (used["edits"] = 0 => OneWorkspacePerDb) /\ FileAndTimersAgree
        => (used["edits"] = 0 => TablesAgree)
    BY DEF TablesAgree
  <1>3. QED
    BY <1>1, <1>2, RegistryInvariant, FileAndTimersAlways, PTL

\* An eviction callback that was started before its workspace was last used evicts
\* nothing, however late it runs (the epoch in evict and evictCode).
THEOREM RecentUseSurvivesAlways == Spec => RecentUseSurvives
  <1>1. RegistryInv => \A x \in stale : Evict(x) => UNCHANGED handle
    <2> SUFFICES ASSUME RegistryInv, NEW x \in stale, Evict(x) PROVE UNCHANGED handle
      OBVIOUS
    <2>1. x[1] \in Entry /\ x[2] \in Nat
      BY DEF RegistryInv, RegistryTypeOK
    <2>2. entry[x[1]].epoch \in Nat /\ x[2] < entry[x[1]].epoch
      BY <2>1 DEF RegistryInv, RegistryTypeOK, EntryRecord, TimerOK
    <2>3. entry[x[1]].epoch # x[2]
      BY <2>1, <2>2
    <2>4. QED
      BY <2>3 DEF Evict
  <1>2. QED
    BY <1>1, RegistryInvariant, PTL DEF RecentUseSurvives

================================================================================
