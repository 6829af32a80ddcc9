SPECIFICATION MCSpec
CONSTANTS
  w1 = w1
  w2 = w2
  player = player
  owner = owner
  campaign = campaign
  addon = addon
  Writers = {w1, w2}
  Clients = {owner, player}
  Role <- MCRole
  Resources = {campaign, addon}
  SubscriberSize = 1
  MaxSubscribers = 1
  ReplayLimit = 1
  MaxSeq = 3
  MaxStops = 1
  MaxBreaks = 1
INVARIANTS QuietViewsMissNothing NoDuplicateOnConnection AtMostOneFrameAfterRevocation
PROPERTIES ViewsCatchUp
CHECK_DEADLOCK FALSE
