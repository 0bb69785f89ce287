SPECIFICATION MCSpec
CONSTANTS
  s1 = s1
  s2 = s2
  m1 = m1
  t1 = t1
  t2 = t2
  Subscribers = {s1, s2}
  Messages = {m1}
  topics <- MCtopics
  topic <- MCtopic
INVARIANTS
  MapsAgree
  FailuresExplained
  TriedAsPromised
PROPERTIES
  Delivered
  Negotiated
  WhatBeginsEnds
