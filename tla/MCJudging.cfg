CONSTANTS
  first = first
  second = second
  labeller = labeller
  ada = ada
  bob = bob
  menu = menu
  tie = tie
  Caller = {first, second, labeller}
  Labels = {labeller}
  Item = {ada, bob, menu, tie}
  Noise = {menu}
  Asks <- MCAsks
  Batch = 1
  Slots = 2

SPECIFICATION JudgingSpec

INVARIANTS
  OnlyJudged
  BrokenKeyCostsOneCall

PROPERTIES
  JudgingEnds

CHECK_DEADLOCK FALSE
