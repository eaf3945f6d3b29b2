SPECIFICATION MCSpec
CONSTANTS
  foo = foo
  bar = bar
  foobar = foobar
  Class = {foo, bar, foobar}
  NoClass = NoClass
  Reported <- PlainReported
  MaxHistory = 4
INVARIANTS TypeOK CustomClassIsAnnounced
PROPERTIES OriginalClassIsStable ImplementsUndo
