--------------------------- MODULE PhotoshopProofs ---------------------------
(***************************************************************************)
(* Proofs about Photoshop, for any number of sessions, places and exports. *)
(* Every command that is reserved, registered or being cleared is the      *)
(* active one of its session as long as the session is there (Owned), so   *)
(* two commands of one session cannot be under way; and what the setting   *)
(* turned off stays off until it is turned on again (Off).                 *)
(***************************************************************************)
EXTENDS Photoshop, TLAPS

\* TypeOK, in two parts.
Values ==
  /\ avail \in {"unchecked", "unavailable", "available"}
  /\ sessions \subseteq Sessions /\ active \in [Sessions -> Commands \cup {Nobody}]
  /\ commands \subseteq Commands /\ owner \in [Commands -> Sessions \cup {Nobody}]
  /\ conn \in [Sessions -> {"new", "open", "ended"}]
  /\ gw \in {"off", "idle", "connect", "admitted", "reserve", "prepare", "register", "commit",
             "clear", "answer", "break"}
  /\ cur \in Sessions \cup Commands \cup {Nobody}
  /\ pc \in [Places -> {"idle", "prepare", "register", "send", "wait", "done"}]
  /\ answer \in [Places -> {None, "ok", "failed"}]
  /\ admission \in {"free", "gateway", "setting"}
  /\ setting \in {"idle", "lock", "persist", "settle", "settled"}
  /\ toggles \in 0..MaxToggles
  /\ worker \in {"idle", "stop", "report", "retried", "answer"}

Flags == enabled \in BOOLEAN /\ lost \in BOOLEAN /\ want \in BOOLEAN /\ retries \in BOOLEAN

\* Whose handler the gateway runs.
Roles ==
  /\ gw = "connect" => cur \in Sessions /\ conn[cur] = "new"
  /\ gw \in {"reserve", "prepare", "register", "break"} => cur \in Exports /\ owner[cur] \in Sessions
  /\ gw \in {"reserve", "prepare", "register", "clear", "answer"} => cur \notin commands
  /\ gw \in {"clear", "answer"} =>
       /\ cur \in Commands /\ owner[cur] \in Sessions
       /\ cur \in Places => pc[cur] \in {"wait", "done"}
  /\ gw = "commit" => cur \in Exports /\ cur \in commands

\* An identity is used once: nothing belongs to a session that has still to come.
Sockets ==
  /\ \A s \in sessions : conn[s] # "new"
  /\ \A c \in Commands : owner[c] # Nobody => conn[owner[c]] # "new"

\* A command that is reserved or registered is the active one of its session.
Owned ==
  /\ \A c \in commands : owner[c] \in Sessions /\ Owns(c)
  /\ \A p \in Places : p \in commands => pc[p] \notin {"idle", "prepare", "register"}
  /\ \A p \in Places : pc[p] \in {"prepare", "register"} => owner[p] \in Sessions /\ Owns(p)
  /\ gw \in {"prepare", "register", "clear"} => Owns(cur)

\* The admission mutex has one holder, and the setting finds no transfer behind it.
Held ==
  /\ setting = "persist" <=> admission = "setting"
  /\ gw = "admitted" <=> admission = "gateway"
  /\ setting = "persist" /\ enabled /\ ~want => ~TransferActive

Closed == gw = "off" /\ \A s \in Sessions : conn[s] # "open"

\* What was turned off stays off, and the worker follows the setting.
Off ==
  /\ ~enabled => sessions = {} /\ commands = {}
  /\ setting \in {"settle", "settled"} => (want <=> enabled)
  /\ worker \in {"stop", "report", "answer"} => setting = "settle"
  /\ worker = "stop" => ~enabled
  /\ setting # "settle" \/ worker \in {"stop", "report", "answer"} => (retries <=> enabled)
  /\ ~enabled /\ (setting # "settle" \/ worker \in {"report", "answer"}) => Closed

Integration == Values /\ Flags /\ Roles /\ Sockets /\ Owned /\ Held /\ Off

USE DEF State, Switch, Events, Commands

-----------------------------------------------------------------------------
(* Types.                                                                  *)

LEMMA NextValues ==
  ASSUME Values, Roles, [Next]_vars
  PROVE  Values'
<1> USE BoundAssumption DEF Values, None
<1>1. CASE Connect
  BY <1>1 DEF Connect, GatewayAt, Goes, Free, Publish, Available, Roles
<1>2. CASE Break
  BY <1>2 DEF Break, GatewayAt, Goes, Free, Disconnect, Retires, Uploading, Publish
<1>3. CASE ReserveExport
  BY <1>3 DEF ReserveExport, GatewayAt, Goes, Free, Publish, Reservable, Available, Roles
<1>4. CASE PrepareExport
  BY <1>4 DEF PrepareExport, GatewayAt, Goes, Free, ClearActive, Publish
<1>5. CASE RegisterExport
  BY <1>5 DEF RegisterExport, GatewayAt, Goes, Free, Roles
<1>6. CASE UploadSettles
  BY <1>6 DEF UploadSettles, GatewayAt, Goes, Free, Publish
<1>7. CASE Clear
  BY <1>7 DEF Clear, GatewayAt, Goes, Free, ClearActive, Publish
<1>8. CASE Answer
  BY <1>8 DEF Answer, GatewayAt, Goes, Free, Roles
<1>9. CASE Admits
  BY <1>9 DEF Admits, SettingAt
<1>10. CASE PersistFails
  BY <1>10 DEF PersistFails, SettingAt
<1>11. CASE Applies
  BY <1>11 DEF Applies, SettingAt
<1>12. CASE Settled
  BY <1>12 DEF Settled, SettingAt, Publish
<1>13. CASE Command
  BY <1>13 DEF Command, WorkerAt
<1>14. CASE Stop
  BY <1>14 DEF Stop, WorkerAt, GatewayFree, Free
<1>15. CASE Report
  BY <1>15 DEF Report, Publish
<1>16. CASE WorkerAnswers
  BY <1>16 DEF WorkerAnswers, WorkerAt
<1>17. CASE Retry
  BY <1>17 DEF Retry, WorkerAt
<1>18. ASSUME NEW a \in Publishers, Deliver(a)
       PROVE  Values'
  BY <1>18 DEF Deliver, Free
<1>19. ASSUME NEW s \in Sessions, Open(s)
       PROVE  Values'
  BY <1>19 DEF Open, GatewayFree, Free
<1>20. ASSUME NEW s \in Sessions, Close(s)
       PROVE  Values'
  BY <1>20 DEF Close, GatewayFree, Free, Disconnect, Retires, Uploading, Publish
<1>21. ASSUME NEW s \in Sessions, Broadcast(s)
       PROVE  Values'
  BY <1>21 DEF Broadcast, Free, Disconnect, Retires, Uploading, Publish
<1>22. ASSUME NEW s \in Sessions, NEW e \in Exports, ExportStart(s, e)
       PROVE  Values'
  BY <1>22 DEF ExportStart, GatewayFree, Free
<1>23. ASSUME NEW e \in Exports, Upload(e)
       PROVE  Values'
  BY <1>23 DEF Upload, GatewayFree, Free
<1>24. ASSUME NEW k \in Commands, Finish(k)
       PROVE  Values'
  BY <1>24 DEF Finish, GatewayFree, Free
<1>25. ASSUME NEW p \in Places, PreparePlace(p)
       PROVE  Values'
  BY <1>25 DEF PreparePlace, PlaceAt, Moves, ClearActive, Publish
<1>26. ASSUME NEW p \in Places, RegisterPlace(p)
       PROVE  Values'
  BY <1>26 DEF RegisterPlace, PlaceAt, Moves
<1>27. ASSUME NEW p \in Places, SendPlace(p)
       PROVE  Values'
  BY <1>27 DEF SendPlace, PlaceAt, Moves, Disconnect, Retires, Uploading, Publish
<1>28. ASSUME NEW p \in Places, PlaceEnds(p)
       PROVE  Values'
  BY <1>28 DEF PlaceEnds, PlaceAt, Moves
<1>29. ASSUME NEW p \in Places, NEW s \in Sessions, ReservePlace(p, s)
       PROVE  Values'
  BY <1>29 DEF ReservePlace, PlaceAt, Moves, Reservable, Available, Publish
<1>30. ASSUME NEW v \in BOOLEAN, Toggle(v)
       PROVE  Values'
  BY <1>30 DEF Toggle, SettingAt
<1>31. CASE UNCHANGED vars
  BY <1>31 DEF vars
<1> QED BY <1>1, <1>2, <1>3, <1>4, <1>5, <1>6, <1>7, <1>8, <1>9, <1>10, <1>11, <1>12, <1>13,
           <1>14, <1>15, <1>16, <1>17, <1>18, <1>19, <1>20, <1>21, <1>22, <1>23, <1>24,
           <1>25, <1>26, <1>27, <1>28, <1>29, <1>30, <1>31
         DEF Next, GatewayStep, SettingStep, WorkerStep, PlaceStep

LEMMA NextFlags ==
  ASSUME Flags, [Next]_vars
  PROVE  Flags'
<1> USE DEF Flags
<1>1. CASE Connect
  BY <1>1 DEF Connect, GatewayAt, Goes, Free, Publish, Available
<1>2. CASE Break
  BY <1>2 DEF Break, GatewayAt, Goes, Free, Disconnect, Retires, Uploading, Publish
<1>3. CASE ReserveExport
  BY <1>3 DEF ReserveExport, GatewayAt, Goes, Free, Publish, Reservable, Available
<1>4. CASE PrepareExport
  BY <1>4 DEF PrepareExport, GatewayAt, Goes, Free, ClearActive, Publish
<1>5. CASE RegisterExport
  BY <1>5 DEF RegisterExport, GatewayAt, Goes, Free
<1>6. CASE UploadSettles
  BY <1>6 DEF UploadSettles, GatewayAt, Goes, Free, Publish
<1>7. CASE Clear
  BY <1>7 DEF Clear, GatewayAt, Goes, Free, ClearActive, Publish
<1>8. CASE Answer
  BY <1>8 DEF Answer, GatewayAt, Goes, Free
<1>9. CASE Admits
  BY <1>9 DEF Admits, SettingAt
<1>10. CASE PersistFails
  BY <1>10 DEF PersistFails, SettingAt
<1>11. CASE Applies
  BY <1>11 DEF Applies, SettingAt
<1>12. CASE Settled
  BY <1>12 DEF Settled, SettingAt, Publish
<1>13. CASE Command
  BY <1>13 DEF Command, WorkerAt
<1>14. CASE Stop
  BY <1>14 DEF Stop, WorkerAt, GatewayFree, Free
<1>15. CASE Report
  BY <1>15 DEF Report, Publish
<1>16. CASE WorkerAnswers
  BY <1>16 DEF WorkerAnswers, WorkerAt
<1>17. CASE Retry
  BY <1>17 DEF Retry, WorkerAt
<1>18. ASSUME NEW a \in Publishers, Deliver(a)
       PROVE  Flags'
  BY <1>18 DEF Deliver, Free
<1>19. ASSUME NEW s \in Sessions, Open(s)
       PROVE  Flags'
  BY <1>19 DEF Open, GatewayFree, Free
<1>20. ASSUME NEW s \in Sessions, Close(s)
       PROVE  Flags'
  BY <1>20 DEF Close, GatewayFree, Free, Disconnect, Retires, Uploading, Publish
<1>21. ASSUME NEW s \in Sessions, Broadcast(s)
       PROVE  Flags'
  BY <1>21 DEF Broadcast, Free, Disconnect, Retires, Uploading, Publish
<1>22. ASSUME NEW s \in Sessions, NEW e \in Exports, ExportStart(s, e)
       PROVE  Flags'
  BY <1>22 DEF ExportStart, GatewayFree, Free
<1>23. ASSUME NEW e \in Exports, Upload(e)
       PROVE  Flags'
  BY <1>23 DEF Upload, GatewayFree, Free
<1>24. ASSUME NEW k \in Commands, Finish(k)
       PROVE  Flags'
  BY <1>24 DEF Finish, GatewayFree, Free
<1>25. ASSUME NEW p \in Places, PreparePlace(p)
       PROVE  Flags'
  BY <1>25 DEF PreparePlace, PlaceAt, Moves, ClearActive, Publish
<1>26. ASSUME NEW p \in Places, RegisterPlace(p)
       PROVE  Flags'
  BY <1>26 DEF RegisterPlace, PlaceAt, Moves
<1>27. ASSUME NEW p \in Places, SendPlace(p)
       PROVE  Flags'
  BY <1>27 DEF SendPlace, PlaceAt, Moves, Disconnect, Retires, Uploading, Publish
<1>28. ASSUME NEW p \in Places, PlaceEnds(p)
       PROVE  Flags'
  BY <1>28 DEF PlaceEnds, PlaceAt, Moves
<1>29. ASSUME NEW p \in Places, NEW s \in Sessions, ReservePlace(p, s)
       PROVE  Flags'
  BY <1>29 DEF ReservePlace, PlaceAt, Moves, Reservable, Available, Publish
<1>30. ASSUME NEW v \in BOOLEAN, Toggle(v)
       PROVE  Flags'
  BY <1>30 DEF Toggle, SettingAt
<1>31. CASE UNCHANGED vars
  BY <1>31 DEF vars
<1> QED BY <1>1, <1>2, <1>3, <1>4, <1>5, <1>6, <1>7, <1>8, <1>9, <1>10, <1>11, <1>12, <1>13,
           <1>14, <1>15, <1>16, <1>17, <1>18, <1>19, <1>20, <1>21, <1>22, <1>23, <1>24,
           <1>25, <1>26, <1>27, <1>28, <1>29, <1>30, <1>31
         DEF Next, GatewayStep, SettingStep, WorkerStep, PlaceStep

-----------------------------------------------------------------------------
(* The gateway, its sockets and the commands.                              *)

LEMMA NextRoles ==
  ASSUME Values, Roles, Owned, [Next]_vars
  PROVE  Roles'
<1> USE SessionAssumption, CommandAssumption DEF Values, Roles
<1>1. CASE Connect
  BY <1>1 DEF Connect, GatewayAt, Goes, Free, Publish, Available
<1>2. CASE Break
  BY <1>2 DEF Break, GatewayAt, Goes, Free, Disconnect, Retires, Uploading, Publish
<1>3. CASE ReserveExport
  BY <1>3 DEF ReserveExport, GatewayAt, Goes, Free, Publish, Reservable, Available
<1>4. CASE PrepareExport
  BY <1>4 DEF PrepareExport, GatewayAt, Goes, Free, ClearActive, Publish
<1>5. CASE RegisterExport
  BY <1>5 DEF RegisterExport, GatewayAt, Goes, Free
<1>6. CASE UploadSettles
  BY <1>6 DEF UploadSettles, GatewayAt, Goes, Free, Publish
<1>7. CASE Clear
  BY <1>7 DEF Clear, GatewayAt, Goes, Free, ClearActive, Publish
<1>8. CASE Answer
  BY <1>8 DEF Answer, GatewayAt, Goes, Free
<1>9. CASE Admits
  BY <1>9 DEF Admits, SettingAt
<1>10. CASE PersistFails
  BY <1>10 DEF PersistFails, SettingAt
<1>11. CASE Applies
  BY <1>11 DEF Applies, SettingAt
<1>12. CASE Settled
  BY <1>12 DEF Settled, SettingAt, Publish
<1>13. CASE Command
  BY <1>13 DEF Command, WorkerAt
<1>14. CASE Stop
  BY <1>14 DEF Stop, WorkerAt, GatewayFree, Free
<1>15. CASE Report
  BY <1>15 DEF Report, Publish
<1>16. CASE WorkerAnswers
  BY <1>16 DEF WorkerAnswers, WorkerAt
<1>17. CASE Retry
  BY <1>17 DEF Retry, WorkerAt
<1>18. ASSUME NEW a \in Publishers, Deliver(a)
       PROVE  Roles'
  BY <1>18 DEF Deliver, Free
<1>19. ASSUME NEW s \in Sessions, Open(s)
       PROVE  Roles'
  BY <1>19 DEF Open, GatewayFree, Free
<1>20. ASSUME NEW s \in Sessions, Close(s)
       PROVE  Roles'
  BY <1>20 DEF Close, GatewayFree, Free, Disconnect, Retires, Uploading, Publish
<1>21. ASSUME NEW s \in Sessions, Broadcast(s)
       PROVE  Roles'
  BY <1>21 DEF Broadcast, Free, Disconnect, Retires, Uploading, Publish
<1>22. ASSUME NEW s \in Sessions, NEW e \in Exports, ExportStart(s, e)
       PROVE  Roles'
  BY <1>22 DEF ExportStart, GatewayFree, Free, Owned
<1>23. ASSUME NEW e \in Exports, Upload(e)
       PROVE  Roles'
  BY <1>23 DEF Upload, GatewayFree, Free, Owned
<1>24. ASSUME NEW k \in Commands, Finish(k)
       PROVE  Roles'
  BY <1>24 DEF Finish, GatewayFree, Free, Owned
<1>25. ASSUME NEW p \in Places, PreparePlace(p)
       PROVE  Roles'
  BY <1>25 DEF PreparePlace, PlaceAt, Moves, ClearActive, Publish
<1>26. ASSUME NEW p \in Places, RegisterPlace(p)
       PROVE  Roles'
  BY <1>26 DEF RegisterPlace, PlaceAt, Moves
<1>27. ASSUME NEW p \in Places, SendPlace(p)
       PROVE  Roles'
  BY <1>27 DEF SendPlace, PlaceAt, Moves, Disconnect, Retires, Uploading, Publish
<1>28. ASSUME NEW p \in Places, PlaceEnds(p)
       PROVE  Roles'
  BY <1>28 DEF PlaceEnds, PlaceAt, Moves
<1>29. ASSUME NEW p \in Places, NEW s \in Sessions, ReservePlace(p, s)
       PROVE  Roles'
  BY <1>29 DEF ReservePlace, PlaceAt, Moves, Reservable, Available, Publish
<1>30. ASSUME NEW v \in BOOLEAN, Toggle(v)
       PROVE  Roles'
  BY <1>30 DEF Toggle, SettingAt
<1>31. CASE UNCHANGED vars
  BY <1>31 DEF vars
<1> QED BY <1>1, <1>2, <1>3, <1>4, <1>5, <1>6, <1>7, <1>8, <1>9, <1>10, <1>11, <1>12, <1>13,
           <1>14, <1>15, <1>16, <1>17, <1>18, <1>19, <1>20, <1>21, <1>22, <1>23, <1>24,
           <1>25, <1>26, <1>27, <1>28, <1>29, <1>30, <1>31
         DEF Next, GatewayStep, SettingStep, WorkerStep, PlaceStep

LEMMA NextSockets ==
  ASSUME Values, Roles, Sockets, [Next]_vars
  PROVE  Sockets'
<1> USE SessionAssumption DEF Values, Roles, Sockets
<1>1. CASE Connect
  BY <1>1 DEF Connect, GatewayAt, Goes, Free, Publish, Available
<1>2. CASE Break
  BY <1>2 DEF Break, GatewayAt, Goes, Free, Disconnect, Retires, Uploading, Publish
<1>3. CASE ReserveExport
  BY <1>3 DEF ReserveExport, GatewayAt, Goes, Free, Publish, Reservable, Available
<1>4. CASE PrepareExport
  BY <1>4 DEF PrepareExport, GatewayAt, Goes, Free, ClearActive, Publish
<1>5. CASE RegisterExport
  BY <1>5 DEF RegisterExport, GatewayAt, Goes, Free
<1>6. CASE UploadSettles
  BY <1>6 DEF UploadSettles, GatewayAt, Goes, Free, Publish
<1>7. CASE Clear
  BY <1>7 DEF Clear, GatewayAt, Goes, Free, ClearActive, Publish
<1>8. CASE Answer
  BY <1>8 DEF Answer, GatewayAt, Goes, Free
<1>9. CASE Admits
  BY <1>9 DEF Admits, SettingAt
<1>10. CASE PersistFails
  BY <1>10 DEF PersistFails, SettingAt
<1>11. CASE Applies
  BY <1>11 DEF Applies, SettingAt
<1>12. CASE Settled
  BY <1>12 DEF Settled, SettingAt, Publish
<1>13. CASE Command
  BY <1>13 DEF Command, WorkerAt
<1>14. CASE Stop
  BY <1>14 DEF Stop, WorkerAt, GatewayFree, Free
<1>15. CASE Report
  BY <1>15 DEF Report, Publish
<1>16. CASE WorkerAnswers
  BY <1>16 DEF WorkerAnswers, WorkerAt
<1>17. CASE Retry
  BY <1>17 DEF Retry, WorkerAt
<1>18. ASSUME NEW a \in Publishers, Deliver(a)
       PROVE  Sockets'
  BY <1>18 DEF Deliver, Free
<1>19. ASSUME NEW s \in Sessions, Open(s)
       PROVE  Sockets'
  BY <1>19 DEF Open, GatewayFree, Free
<1>20. ASSUME NEW s \in Sessions, Close(s)
       PROVE  Sockets'
  BY <1>20 DEF Close, GatewayFree, Free, Disconnect, Retires, Uploading, Publish
<1>21. ASSUME NEW s \in Sessions, Broadcast(s)
       PROVE  Sockets'
  BY <1>21 DEF Broadcast, Free, Disconnect, Retires, Uploading, Publish
<1>22. ASSUME NEW s \in Sessions, NEW e \in Exports, ExportStart(s, e)
       PROVE  Sockets'
  BY <1>22 DEF ExportStart, GatewayFree, Free
<1>23. ASSUME NEW e \in Exports, Upload(e)
       PROVE  Sockets'
  BY <1>23 DEF Upload, GatewayFree, Free
<1>24. ASSUME NEW k \in Commands, Finish(k)
       PROVE  Sockets'
  BY <1>24 DEF Finish, GatewayFree, Free
<1>25. ASSUME NEW p \in Places, PreparePlace(p)
       PROVE  Sockets'
  BY <1>25 DEF PreparePlace, PlaceAt, Moves, ClearActive, Publish
<1>26. ASSUME NEW p \in Places, RegisterPlace(p)
       PROVE  Sockets'
  BY <1>26 DEF RegisterPlace, PlaceAt, Moves
<1>27. ASSUME NEW p \in Places, SendPlace(p)
       PROVE  Sockets'
  BY <1>27 DEF SendPlace, PlaceAt, Moves, Disconnect, Retires, Uploading, Publish
<1>28. ASSUME NEW p \in Places, PlaceEnds(p)
       PROVE  Sockets'
  BY <1>28 DEF PlaceEnds, PlaceAt, Moves
<1>29. ASSUME NEW p \in Places, NEW s \in Sessions, ReservePlace(p, s)
       PROVE  Sockets'
  BY <1>29 DEF ReservePlace, PlaceAt, Moves, Reservable, Available, Publish
<1>30. ASSUME NEW v \in BOOLEAN, Toggle(v)
       PROVE  Sockets'
  BY <1>30 DEF Toggle, SettingAt
<1>31. CASE UNCHANGED vars
  BY <1>31 DEF vars
<1> QED BY <1>1, <1>2, <1>3, <1>4, <1>5, <1>6, <1>7, <1>8, <1>9, <1>10, <1>11, <1>12, <1>13,
           <1>14, <1>15, <1>16, <1>17, <1>18, <1>19, <1>20, <1>21, <1>22, <1>23, <1>24,
           <1>25, <1>26, <1>27, <1>28, <1>29, <1>30, <1>31
         DEF Next, GatewayStep, SettingStep, WorkerStep, PlaceStep

LEMMA NextOwned ==
  ASSUME Values, Roles, Sockets, Owned, [Next]_vars
  PROVE  Owned'
<1> USE SessionAssumption, CommandAssumption DEF Values, Roles, Sockets, Owned, Owns
<1>1. CASE Connect
  BY <1>1 DEF Connect, GatewayAt, Goes, Free, Publish, Available
<1>2. CASE Break
  BY <1>2 DEF Break, GatewayAt, Goes, Free, Disconnect, Retires, Uploading, Publish
<1>3. CASE ReserveExport
  BY <1>3 DEF ReserveExport, GatewayAt, Goes, Free, Publish, Reservable, Available
<1>4. CASE PrepareExport
  BY <1>4 DEF PrepareExport, GatewayAt, Goes, Free, ClearActive, Publish
<1>5. CASE RegisterExport
  BY <1>5 DEF RegisterExport, GatewayAt, Goes, Free
<1>6. CASE UploadSettles
  BY <1>6 DEF UploadSettles, GatewayAt, Goes, Free, Publish
<1>7. CASE Clear
  BY <1>7 DEF Clear, GatewayAt, Goes, Free, ClearActive, Publish
<1>8. CASE Answer
  BY <1>8 DEF Answer, GatewayAt, Goes, Free
<1>9. CASE Admits
  BY <1>9 DEF Admits, SettingAt
<1>10. CASE PersistFails
  BY <1>10 DEF PersistFails, SettingAt
<1>11. CASE Applies
  BY <1>11 DEF Applies, SettingAt
<1>12. CASE Settled
  BY <1>12 DEF Settled, SettingAt, Publish
<1>13. CASE Command
  BY <1>13 DEF Command, WorkerAt
<1>14. CASE Stop
  BY <1>14 DEF Stop, WorkerAt, GatewayFree, Free
<1>15. CASE Report
  BY <1>15 DEF Report, Publish
<1>16. CASE WorkerAnswers
  BY <1>16 DEF WorkerAnswers, WorkerAt
<1>17. CASE Retry
  BY <1>17 DEF Retry, WorkerAt
<1>18. ASSUME NEW a \in Publishers, Deliver(a)
       PROVE  Owned'
  BY <1>18 DEF Deliver, Free
<1>19. ASSUME NEW s \in Sessions, Open(s)
       PROVE  Owned'
  BY <1>19 DEF Open, GatewayFree, Free
<1>20. ASSUME NEW s \in Sessions, Close(s)
       PROVE  Owned'
  BY <1>20 DEF Close, GatewayFree, Free, Disconnect, Retires, Uploading, Publish
<1>21. ASSUME NEW s \in Sessions, Broadcast(s)
       PROVE  Owned'
  BY <1>21 DEF Broadcast, Free, Disconnect, Retires, Uploading, Publish
<1>22. ASSUME NEW s \in Sessions, NEW e \in Exports, ExportStart(s, e)
       PROVE  Owned'
  BY <1>22 DEF ExportStart, GatewayFree, Free
<1>23. ASSUME NEW e \in Exports, Upload(e)
       PROVE  Owned'
  BY <1>23 DEF Upload, GatewayFree, Free
<1>24. ASSUME NEW k \in Commands, Finish(k)
       PROVE  Owned'
  BY <1>24 DEF Finish, GatewayFree, Free
<1>25. ASSUME NEW p \in Places, PreparePlace(p)
       PROVE  Owned'
  BY <1>25 DEF PreparePlace, PlaceAt, Moves, ClearActive, Publish
<1>26. ASSUME NEW p \in Places, RegisterPlace(p)
       PROVE  Owned'
  BY <1>26 DEF RegisterPlace, PlaceAt, Moves
<1>27. ASSUME NEW p \in Places, SendPlace(p)
       PROVE  Owned'
  BY <1>27 DEF SendPlace, PlaceAt, Moves, Disconnect, Retires, Uploading, Publish
<1>28. ASSUME NEW p \in Places, PlaceEnds(p)
       PROVE  Owned'
  BY <1>28 DEF PlaceEnds, PlaceAt, Moves
<1>29. ASSUME NEW p \in Places, NEW s \in Sessions, ReservePlace(p, s)
       PROVE  Owned'
  BY <1>29 DEF ReservePlace, PlaceAt, Moves, Reservable, Available, Publish
<1>30. ASSUME NEW v \in BOOLEAN, Toggle(v)
       PROVE  Owned'
  BY <1>30 DEF Toggle, SettingAt
<1>31. CASE UNCHANGED vars
  BY <1>31 DEF vars
<1> QED BY <1>1, <1>2, <1>3, <1>4, <1>5, <1>6, <1>7, <1>8, <1>9, <1>10, <1>11, <1>12, <1>13,
           <1>14, <1>15, <1>16, <1>17, <1>18, <1>19, <1>20, <1>21, <1>22, <1>23, <1>24,
           <1>25, <1>26, <1>27, <1>28, <1>29, <1>30, <1>31
         DEF Next, GatewayStep, SettingStep, WorkerStep, PlaceStep

-----------------------------------------------------------------------------
(* The setting and its worker.                                             *)

LEMMA NextHeld ==
  ASSUME Values, Flags, Roles, Owned, Held, Off, [Next]_vars
  PROVE  Held'
<1> USE SessionAssumption DEF Values, Held
<1>1. CASE Connect
  BY <1>1 DEF Connect, GatewayAt, Goes, Free, Publish, Available, TransferActive
<1>2. CASE Break
  BY <1>2 DEF Break, GatewayAt, Goes, Free, Disconnect, Retires, Uploading, Publish,
         TransferActive
<1>3. CASE ReserveExport
  BY <1>3 DEF ReserveExport, GatewayAt, Goes, Free, Publish, Reservable, Available,
         TransferActive
<1>4. CASE PrepareExport
  BY <1>4 DEF PrepareExport, GatewayAt, Goes, Free, ClearActive, Publish, TransferActive
<1>5. CASE RegisterExport
  <2>1. owner[cur] \in sessions => TransferActive
    BY <1>5 DEF RegisterExport, GatewayAt, Roles, Owned, Owns, TransferActive
  <2>2. setting = "persist" /\ enabled /\ ~want => commands' = commands
    BY <1>5, <2>1 DEF RegisterExport
  <2>3. gw # "admitted" /\ gw' # "admitted"
        /\ UNCHANGED <<setting, admission, enabled, want, sessions, active>>
    BY <1>5 DEF RegisterExport, GatewayAt, Goes
  <2> QED BY <2>2, <2>3 DEF TransferActive
<1>6. CASE UploadSettles
  BY <1>6 DEF UploadSettles, GatewayAt, Goes, Free, Publish, TransferActive
<1>7. CASE Clear
  BY <1>7 DEF Clear, GatewayAt, Goes, Free, ClearActive, Publish, TransferActive
<1>8. CASE Answer
  BY <1>8 DEF Answer, GatewayAt, Goes, Free, TransferActive
<1>9. CASE Admits
  BY <1>9 DEF Admits, SettingAt, TransferActive
<1>10. CASE PersistFails
  BY <1>10 DEF PersistFails, SettingAt, TransferActive
<1>11. CASE Applies
  BY <1>11 DEF Applies, SettingAt, TransferActive
<1>12. CASE Settled
  BY <1>12 DEF Settled, SettingAt, Publish, TransferActive
<1>13. CASE Command
  BY <1>13 DEF Command, WorkerAt, TransferActive
<1>14. CASE Stop
  BY <1>14 DEF Stop, WorkerAt, GatewayFree, Free, TransferActive
<1>15. CASE Report
  BY <1>15 DEF Report, Publish, TransferActive
<1>16. CASE WorkerAnswers
  <2>1. setting = "settle" /\ setting' = "settled"
    BY <1>16 DEF WorkerAnswers, WorkerAt, Off
  <2> QED BY <1>16, <2>1 DEF WorkerAnswers, TransferActive
<1>17. CASE Retry
  BY <1>17 DEF Retry, WorkerAt, TransferActive
<1>18. ASSUME NEW a \in Publishers, Deliver(a)
       PROVE  Held'
  BY <1>18 DEF Deliver, Free, TransferActive
<1>19. ASSUME NEW s \in Sessions, Open(s)
       PROVE  Held'
  BY <1>19 DEF Open, GatewayFree, Free, TransferActive
<1>20. ASSUME NEW s \in Sessions, Close(s)
       PROVE  Held'
  BY <1>20 DEF Close, GatewayFree, Free, Disconnect, Retires, Uploading, Publish,
         TransferActive
<1>21. ASSUME NEW s \in Sessions, Broadcast(s)
       PROVE  Held'
  BY <1>21 DEF Broadcast, Free, Disconnect, Retires, Uploading, Publish, TransferActive
<1>22. ASSUME NEW s \in Sessions, NEW e \in Exports, ExportStart(s, e)
       PROVE  Held'
  BY <1>22 DEF ExportStart, GatewayFree, Free, TransferActive
<1>23. ASSUME NEW e \in Exports, Upload(e)
       PROVE  Held'
  BY <1>23 DEF Upload, GatewayFree, Free, TransferActive
<1>24. ASSUME NEW k \in Commands, Finish(k)
       PROVE  Held'
  BY <1>24 DEF Finish, GatewayFree, Free, TransferActive
<1>25. ASSUME NEW p \in Places, PreparePlace(p)
       PROVE  Held'
  BY <1>25 DEF PreparePlace, PlaceAt, Moves, ClearActive, Publish, TransferActive
<1>26. ASSUME NEW p \in Places, RegisterPlace(p)
       PROVE  Held'
  <2>1. owner[p] \in sessions => TransferActive
    BY <1>26 DEF RegisterPlace, PlaceAt, Owned, Owns, TransferActive
  <2>2. setting = "persist" /\ enabled /\ ~want => commands' = commands
    BY <1>26, <2>1 DEF RegisterPlace
  <2>3. UNCHANGED <<setting, admission, gw, enabled, want, sessions, active>>
    BY <1>26 DEF RegisterPlace
  <2> QED BY <2>2, <2>3 DEF TransferActive
<1>27. ASSUME NEW p \in Places, SendPlace(p)
       PROVE  Held'
  BY <1>27 DEF SendPlace, PlaceAt, Moves, Disconnect, Retires, Uploading, Publish,
         TransferActive
<1>28. ASSUME NEW p \in Places, PlaceEnds(p)
       PROVE  Held'
  BY <1>28 DEF PlaceEnds, PlaceAt, Moves, TransferActive
<1>29. ASSUME NEW p \in Places, NEW s \in Sessions, ReservePlace(p, s)
       PROVE  Held'
  BY <1>29 DEF ReservePlace, PlaceAt, Moves, Reservable, Available, Publish, TransferActive
<1>30. ASSUME NEW v \in BOOLEAN, Toggle(v)
       PROVE  Held'
  BY <1>30 DEF Toggle, SettingAt, TransferActive
<1>31. CASE UNCHANGED vars
  BY <1>31 DEF vars, TransferActive
<1> QED BY <1>1, <1>2, <1>3, <1>4, <1>5, <1>6, <1>7, <1>8, <1>9, <1>10, <1>11, <1>12, <1>13,
           <1>14, <1>15, <1>16, <1>17, <1>18, <1>19, <1>20, <1>21, <1>22, <1>23, <1>24,
           <1>25, <1>26, <1>27, <1>28, <1>29, <1>30, <1>31
         DEF Next, GatewayStep, SettingStep, WorkerStep, PlaceStep

LEMMA NextOff ==
  ASSUME Values, Flags, Roles, Owned, Held, Off, [Next]_vars
  PROVE  Off'
<1> USE DEF Values, Flags, Off, Closed
<1>1. CASE Connect
  BY <1>1 DEF Connect, GatewayAt, Goes, Free, Publish, Available
<1>2. CASE Break
  BY <1>2 DEF Break, GatewayAt, Goes, Free, Disconnect, Retires, Uploading, Publish
<1>3. CASE ReserveExport
  BY <1>3 DEF ReserveExport, GatewayAt, Goes, Free, Publish, Reservable, Available
<1>4. CASE PrepareExport
  BY <1>4 DEF PrepareExport, GatewayAt, Goes, Free, ClearActive, Publish
<1>5. CASE RegisterExport
  BY <1>5 DEF RegisterExport, GatewayAt, Goes, Free
<1>6. CASE UploadSettles
  BY <1>6 DEF UploadSettles, GatewayAt, Goes, Free, Publish
<1>7. CASE Clear
  BY <1>7 DEF Clear, GatewayAt, Goes, Free, ClearActive, Publish
<1>8. CASE Answer
  BY <1>8 DEF Answer, GatewayAt, Goes, Free
<1>9. CASE Admits
  BY <1>9 DEF Admits, SettingAt
<1>10. CASE PersistFails
  BY <1>10 DEF PersistFails, SettingAt
<1>11. CASE Applies
  <2>1. setting = "persist" /\ enabled' = want /\ commands' = commands
        /\ setting' = (IF want = enabled THEN "idle" ELSE "settle")
        /\ UNCHANGED <<want, worker, retries, gw, conn>>
        /\ (want \/ sessions' = {})
    BY <1>11 DEF Applies, SettingAt
  <2>2. ~want => commands = {}
    BY <2>1 DEF Held, TransferActive
  <2>3. ~enabled' => sessions' = {} /\ commands' = {}
    BY <2>1, <2>2
  <2>4. worker \notin {"stop", "report", "answer"} /\ (retries <=> enabled)
    BY <2>1
  <2>5. CASE want <=> enabled
    BY <2>1, <2>3, <2>4, <2>5
  <2>6. CASE ~(want <=> enabled)
    BY <2>1, <2>3, <2>4, <2>6
  <2> QED BY <2>5, <2>6
<1>12. CASE Settled
  BY <1>12 DEF Settled, SettingAt, Publish
<1>13. CASE Command
  BY <1>13 DEF Command, WorkerAt
<1>14. CASE Stop
  BY <1>14 DEF Stop, WorkerAt, GatewayFree, Free
<1>15. CASE Report
  BY <1>15 DEF Report, Publish
<1>16. CASE WorkerAnswers
  BY <1>16 DEF WorkerAnswers, WorkerAt
<1>17. CASE Retry
  BY <1>17 DEF Retry, WorkerAt
<1>18. ASSUME NEW a \in Publishers, Deliver(a)
       PROVE  Off'
  BY <1>18 DEF Deliver, Free
<1>19. ASSUME NEW s \in Sessions, Open(s)
       PROVE  Off'
  BY <1>19 DEF Open, GatewayFree, Free
<1>20. ASSUME NEW s \in Sessions, Close(s)
       PROVE  Off'
  BY <1>20 DEF Close, GatewayFree, Free, Disconnect, Retires, Uploading, Publish
<1>21. ASSUME NEW s \in Sessions, Broadcast(s)
       PROVE  Off'
  BY <1>21 DEF Broadcast, Free, Disconnect, Retires, Uploading, Publish
<1>22. ASSUME NEW s \in Sessions, NEW e \in Exports, ExportStart(s, e)
       PROVE  Off'
  BY <1>22 DEF ExportStart, GatewayFree, Free
<1>23. ASSUME NEW e \in Exports, Upload(e)
       PROVE  Off'
  BY <1>23 DEF Upload, GatewayFree, Free
<1>24. ASSUME NEW k \in Commands, Finish(k)
       PROVE  Off'
  BY <1>24 DEF Finish, GatewayFree, Free
<1>25. ASSUME NEW p \in Places, PreparePlace(p)
       PROVE  Off'
  BY <1>25 DEF PreparePlace, PlaceAt, Moves, ClearActive, Publish
<1>26. ASSUME NEW p \in Places, RegisterPlace(p)
       PROVE  Off'
  BY <1>26 DEF RegisterPlace, PlaceAt, Moves
<1>27. ASSUME NEW p \in Places, SendPlace(p)
       PROVE  Off'
  BY <1>27 DEF SendPlace, PlaceAt, Moves, Disconnect, Retires, Uploading, Publish
<1>28. ASSUME NEW p \in Places, PlaceEnds(p)
       PROVE  Off'
  BY <1>28 DEF PlaceEnds, PlaceAt, Moves
<1>29. ASSUME NEW p \in Places, NEW s \in Sessions, ReservePlace(p, s)
       PROVE  Off'
  BY <1>29 DEF ReservePlace, PlaceAt, Moves, Reservable, Available, Publish
<1>30. ASSUME NEW v \in BOOLEAN, Toggle(v)
       PROVE  Off'
  BY <1>30 DEF Toggle, SettingAt
<1>31. CASE UNCHANGED vars
  BY <1>31 DEF vars
<1> QED BY <1>1, <1>2, <1>3, <1>4, <1>5, <1>6, <1>7, <1>8, <1>9, <1>10, <1>11, <1>12, <1>13,
           <1>14, <1>15, <1>16, <1>17, <1>18, <1>19, <1>20, <1>21, <1>22, <1>23, <1>24,
           <1>25, <1>26, <1>27, <1>28, <1>29, <1>30, <1>31
         DEF Next, GatewayStep, SettingStep, WorkerStep, PlaceStep

-----------------------------------------------------------------------------
LEMMA InitIntegration == Init => Integration
<1> SUFFICES ASSUME Init PROVE Integration
  OBVIOUS
<1> USE SessionAssumption DEF Init, None
<1>1. Values
  BY BoundAssumption DEF Values
<1>2. Flags
  BY DEF Flags
<1>3. Roles /\ Sockets
  BY DEF Roles, Sockets
<1>4. Owned /\ Held
  BY DEF Owned, Held
<1>5. Off
  BY DEF Off, Closed
<1> QED BY <1>1, <1>2, <1>3, <1>4, <1>5 DEF Integration

LEMMA AlwaysIntegration == Spec => []Integration
<1>1. Integration /\ [Next]_vars => Integration'
  BY NextValues, NextFlags, NextRoles, NextSockets, NextOwned, NextHeld, NextOff DEF Integration
<1> QED BY <1>1, InitIntegration, PTL DEF Spec

\* Every variable keeps its type.
THEOREM TypeCorrect == Spec => []TypeOK
<1>1. Integration => TypeOK
  BY DEF Integration, Values, Flags, TypeOK
<1> QED BY <1>1, AlwaysIntegration, PTL

\* commit_export, clear_active and mutate_enabled: whatever session, place, upload or
\* change of the setting meets whichever other, an upload finds its command after the
\* Project commit, a command that registers or settles is still the active one of its
\* session, and what the setting turns off has no transfer.
THEOREM AssertionsHold == Spec => []NoPanic
<1>1. Integration => NoPanic
  BY DEF Integration, Roles, Owned, Held, NoPanic
<1> QED BY <1>1, AlwaysIntegration, PTL

\* apply_enabled and run_lifecycle: an integration that is off, and whose change of the
\* setting has returned, has no gateway, no open socket, no session and no command.
THEOREM OffIsEmpty == Spec => []OffRetainsNothing
<1>1. Integration => OffRetainsNothing
  BY DEF Integration, Off, Closed, OffRetainsNothing
<1> QED BY <1>1, AlwaysIntegration, PTL
=============================================================================
