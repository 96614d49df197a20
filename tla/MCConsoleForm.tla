---- MODULE MCConsoleForm ----
EXTENDS ConsoleForm

\* One form of each kind: with another button, with a list edited in place,
\* with one timeout, with a copy of its own, and for a new record.
Kinds ==
    {InstanceForm, NodeForm, DiskForm, StorageForm, DeviceForm, SettingsForm,
     UserForm, UserNewForm, DiskNewForm}
One == {InstanceForm}
====
