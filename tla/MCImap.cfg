SPECIFICATION Spec
CONSTANTS
  MaxUid = 3
  MaxEvents = 3
  OtherFlags <- Marks
INVARIANTS NumbersAgree NoMailForgotten CountsRight FlagsAgree
PROPERTIES SyncSavesAll OnlyDeletedExpunged
