\* Three insertions before, at and after the handle stage while a dispatcher walks the list without
\* ever stopping: two priorities, two protocols.
SPECIFICATION FairListSpec
CONSTANTS
  Dispatchers = {d1}
  Stages = {49, 97, 145}
  HandleStage = 97
  Priorities = {0, 1}
  Protocols = {http, ftp}
  AnyProtocol = any
  NoItem = none
  MaxItems = 3
INVARIANTS ListInOrder CallsFollowList
PROPERTY InsertNotStarved
