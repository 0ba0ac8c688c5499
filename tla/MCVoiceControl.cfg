SPECIFICATION FairVoiceSpec
CONSTANTS
  l1 = l1
  l2 = l2
  c1 = c1
  report = report
  notes = notes
  Listeners = {l1, l2}
  Calls = {c1}
  Items = {report}
  Nothing = Nothing
  MaximumQuestions = 2
INVARIANTS VoiceTypeOK OnlyConfirmedIsDone
PROPERTIES AnsweredIsNotPending StoppedListenersEnd
